---- MODULE Spec2Model ----
(***************************************************************************)
(* Model of the gradebook app: the StudentGradebook cache written by       *)
(* generate_user_gradebook (utils.py), the StudentGradebookHistory audit   *)
(* trail kept by the post_save receiver save_history (models.py), the      *)
(* leaderboard read StudentGradebook.generate_leaderboard (models.py), the *)
(* completion count get_num_users_completed (models.py) and the time       *)
(* series metrics view (views.py).                                         *)
(*                                                                         *)
(* Time is a logical clock: every save reads the clock once and the next   *)
(* reading is later.  Grades are integers standing for the float percent.  *)
(***************************************************************************)
EXTENDS Integers, Sequences, FiniteSets, TLC

VARIABLES gradebook,    \* rows of the StudentGradebook table
          history,      \* rows of the StudentGradebookHistory table, in insertion (id) order
          clock,        \* the last value timezone.now() returned
          hook_calls,   \* number of times the post_save receiver has run
          call,         \* the last operation: its arguments and what it returned
          pc,           \* concurrent callers: the statement each one is at
          loc,          \* concurrent callers: the local variables of each one
          is_active,    \* auth User.is_active: the set of active users
          enrollment,   \* CourseEnrollment rows
          progress      \* StudentProgress rows: the users who started a course

vars == <<gradebook, history, clock, hook_calls, call, pc, loc, is_active, enrollment,
          progress>>

-----------------------------------------------------------------------------
(* Bounds *)

MaxTime == 7

Procs == {"p1", "p2"}

BoardMaxTime == 7

CompletionMaxTime == 6

SeriesMaxTime == 5

Users == {1, 2, 3}

LedgerUsers == {1, 2}

LedgerCourses == {"c1", "c2"}

(* The keys upserted one at a time: two users of a course, two courses of a user. *)
LedgerKeys == {k \in LedgerUsers \X LedgerCourses : k[1] = 1 \/ k[2] = "c1"}

GroupIds == {"g1", "g2"}

BoardGrades == {0, 800}

Courses == {"c1"}

Grades == {1, 2}

Blobs == {"a", "b"}

-----------------------------------------------------------------------------
(* The five material fields computed by the grading engine before the      *)
(* upsert (utils.py 28-39): the base input of every grade, and the inputs   *)
(* of the highest grade that differ from its base input in one other field. *)

BaseInput(g) ==
    [grade |-> g, proforma_grade |-> 1, progress_summary |-> "a",
     grade_summary |-> "a", grading_policy |-> "a"]

MaxGradeInput == BaseInput(CHOOSE g \in Grades : \A h \in Grades : h <= g)

Inputs ==
    {BaseInput(g) : g \in Grades} \cup
    {[MaxGradeInput EXCEPT !.proforma_grade = 2]} \cup
    UNION {{[MaxGradeInput EXCEPT !.progress_summary = b],
            [MaxGradeInput EXCEPT !.grade_summary = b],
            [MaxGradeInput EXCEPT !.grading_policy = b]} : b \in Blobs \ {"a"}}

NoRow == [id |-> 0]

NoCall == [op |-> "none"]

NoLocal == [user |-> 0]

(* The five material fields of a gradebook row or of a history entry. *)
Material(r) ==
    [grade |-> r.grade, proforma_grade |-> r.proforma_grade,
     progress_summary |-> r.progress_summary,
     grade_summary |-> r.grade_summary, grading_policy |-> r.grading_policy]

-----------------------------------------------------------------------------
(* StudentGradebook table *)

(* StudentGradebook.objects.filter(user=u, course_id=c) *)
GradebookRows(gb, u, c) == {r \in gb : r.user = u /\ r.course_id = c}

(* A table without the unique constraint: every insert is accepted. *)
NoConstraint(gb, u, c) == TRUE

(* Meta.unique_together = (('user', 'course_id'),): the insert is refused   *)
(* when a row with the same key is already stored.                          *)
UniqueTogether(gb, u, c) == GradebookRows(gb, u, c) = {}

(* The row inserted by objects.create(user=u, course_id=c, **defaults):     *)
(* AutoCreatedField and AutoLastModifiedField take the time of the save.    *)
NewRow(gb, u, c, in, t) ==
    [id |-> Cardinality(gb) + 1, user |-> u, course_id |-> c,
     grade |-> in.grade, proforma_grade |-> in.proforma_grade,
     progress_summary |-> in.progress_summary,
     grade_summary |-> in.grade_summary,
     grading_policy |-> in.grading_policy,
     created |-> t, modified |-> t]

(* Overwritten with only the compared field assigned and no new modified. *)
OverwrittenGradeOnly(row, in, t) == [row EXCEPT !.grade = in.grade]

(* utils.py 52-57: the five assignments, then save(); AutoLastModifiedField  *)
(* sets modified to the time of the save, created is left alone.            *)
Overwritten(row, in, t) ==
    [row EXCEPT !.grade = in.grade,
                !.proforma_grade = in.proforma_grade,
                !.progress_summary = in.progress_summary,
                !.grade_summary = in.grade_summary,
                !.grading_policy = in.grading_policy,
                !.modified = t]

(* save() of an existing instance: UPDATE ... WHERE id = row.id *)
UpdateRow(gb, row) == {r \in gb : r.id # row.id} \cup {row}

(* GradeChanged as a full diff of the five fields. *)
AnyFieldChanged(entry, in) == Material(entry) # in

(* utils.py 51: the guard of the overwrite compares grade only *)
GradeChanged(entry, in) == entry.grade # in.grade

-----------------------------------------------------------------------------
(* StudentGradebookHistory table and the post_save receiver *)

(* HistoryIndices without the filter on the key. *)
HistoryIndicesAnyKey(h, u, c) == 1..Len(h)

(* StudentGradebookHistory.objects.filter(user=..., course_id=...): the     *)
(* indices of the matching entries.                                         *)
HistoryIndices(h, u, c) ==
    {i \in 1..Len(h) : h[i].user = u /\ h[i].course_id = c}

(* models.py 204-206: history_entries[0].  The queryset has no order_by and *)
(* the model declares no Meta.ordering, so the database may return the      *)
(* matching rows in any order: every matching entry is a possible first.    *)
FirstHistoryEntry(h, u, c) ==
    IF HistoryIndices(h, u, c) = {}
    THEN {NoRow}
    ELSE {h[i] : i \in HistoryIndices(h, u, c)}

(* models.py 208-219 *)
CreateHistoryEntry(latest_history_entry, instance) ==
    IF latest_history_entry # NoRow
    THEN \/ latest_history_entry.grade # instance.grade
         \/ latest_history_entry.proforma_grade # instance.proforma_grade
         \/ latest_history_entry.progress_summary # instance.progress_summary
         \/ latest_history_entry.grade_summary # instance.grade_summary
         \/ latest_history_entry.grading_policy # instance.grading_policy
    ELSE TRUE

(* models.py 222-230 *)
NewHistoryEntry(h, instance, t) ==
    [id |-> Len(h) + 1, user |-> instance.user, course_id |-> instance.course_id,
     grade |-> instance.grade, proforma_grade |-> instance.proforma_grade,
     progress_summary |-> instance.progress_summary,
     grade_summary |-> instance.grade_summary,
     grading_policy |-> instance.grading_policy,
     created |-> t]

(* AppendHistory as an update of the newest entry in place. *)
ReplaceNewest(h, entry) ==
    IF h = <<>> THEN <<entry>>
    ELSE [h EXCEPT ![Len(h)] = [entry EXCEPT !.id = Len(h)]]

(* models.py 231: new_history_entry.save() *)
AppendHistory(h, entry) == Append(h, entry)

(* models.py 198-231: the receiver as a whole, with latest_history_entry    *)
(* the entry the query returned first.  A new entry is saved at time t.     *)
save_history(h, instance, latest_history_entry, t) ==
    IF CreateHistoryEntry(latest_history_entry, instance)
    THEN AppendHistory(h, NewHistoryEntry(h, instance, t))
    ELSE h

(* The clock after the receiver ran at time t: TimeStampedModel reads the   *)
(* clock only when an entry is constructed.                                 *)
ClockAfterHistory(h, instance, latest_history_entry, t) ==
    IF CreateHistoryEntry(latest_history_entry, instance) THEN t + 1 ELSE t

-----------------------------------------------------------------------------
(* generate_user_gradebook, run to completion with no other writer          *)

(* utils.py 41-49, get_or_create finds no row: the row is inserted at time  *)
(* clock + 1, post_save runs the receiver, the guard of line 51 is false.   *)
UpsertCreate(u, c, in, limit) ==
    /\ GradebookRows(gradebook, u, c) = {}
    /\ clock + 2 <= limit
    /\ LET row == NewRow(gradebook, u, c, in, clock + 1)
       IN /\ GradeChanged(row, in) = FALSE
          /\ gradebook' = gradebook \cup {row}
          /\ \E latest \in FirstHistoryEntry(history, u, c) :
                /\ history' = save_history(history, row, latest, clock + 2)
                /\ clock' = ClockAfterHistory(history, row, latest, clock + 1)
          /\ hook_calls' = hook_calls + 1
          /\ call' = [op |-> "upsert", user |-> u, course_id |-> c, input |-> in,
                      created |-> TRUE, saved |-> FALSE, returned |-> row]
    /\ UNCHANGED <<pc, loc, is_active, enrollment,
                 progress>>

(* utils.py 41-57, get_or_create returns the stored row and the grade       *)
(* differs: the five fields are overwritten, save(), post_save.             *)
UpsertOverwrite(u, c, in, limit) ==
    /\ clock + 2 <= limit
    /\ \E entry \in GradebookRows(gradebook, u, c) :
         /\ GradeChanged(entry, in)
         /\ LET row == Overwritten(entry, in, clock + 1)
            IN /\ gradebook' = UpdateRow(gradebook, row)
               /\ \E latest \in FirstHistoryEntry(history, u, c) :
                     /\ history' = save_history(history, row, latest, clock + 2)
                     /\ clock' = ClockAfterHistory(history, row, latest, clock + 1)
               /\ hook_calls' = hook_calls + 1
               /\ call' = [op |-> "upsert", user |-> u, course_id |-> c, input |-> in,
                           created |-> FALSE, saved |-> TRUE, returned |-> row]
    /\ UNCHANGED <<pc, loc, is_active, enrollment,
                 progress>>

(* utils.py 41-59, get_or_create returns the stored row and the grade is    *)
(* the stored grade: nothing is written.                                    *)
UpsertUnchanged(u, c, in) ==
    /\ \E entry \in GradebookRows(gradebook, u, c) :
         /\ ~GradeChanged(entry, in)
         /\ call' = [op |-> "upsert", user |-> u, course_id |-> c, input |-> in,
                     created |-> FALSE, saved |-> FALSE, returned |-> entry]
    /\ UNCHANGED <<gradebook, history, clock, hook_calls, pc, loc, is_active, enrollment,
                 progress>>

generate_user_gradebook(u, c, in, limit) ==
    \/ UpsertCreate(u, c, in, limit)
    \/ UpsertOverwrite(u, c, in, limit)
    \/ UpsertUnchanged(u, c, in)

-----------------------------------------------------------------------------

Init ==
    /\ gradebook = {}
    /\ history = <<>>
    /\ clock = 0
    /\ hook_calls = 0
    /\ call = NoCall
    /\ pc = [p \in Procs |-> "idle"]
    /\ loc = [p \in Procs |-> NoLocal]
    /\ is_active = Users
    /\ enrollment = {[user |-> u, course_id |-> c, is_active |-> TRUE] :
                        u \in Users, c \in Courses}
    /\ progress = {}

Next ==
    \E k \in LedgerKeys, in \in Inputs :
        generate_user_gradebook(k[1], k[2], in, MaxTime)

Spec == Init /\ [][Next]_vars

-----------------------------------------------------------------------------
(* generate_user_gradebook called by concurrent workers.  Each database     *)
(* statement is one step; the function takes no lock and opens no           *)
(* transaction of its own (utils.py 23: non_atomic_requests), only          *)
(* get_or_create wraps its INSERT, and with it the post_save receiver, in   *)
(* transaction.atomic.                                                      *)

(* The inputs of the concurrent callers: two grades, two proforma grades. *)
ConcInputs ==
    {BaseInput(g) : g \in Grades} \cup
    {[BaseInput(g) EXCEPT !.proforma_grade = 2] : g \in Grades}

(* Where a caller goes once it holds a row: utils.py 51. *)
AfterGet(entry, in) == IF GradeChanged(entry, in) THEN "save" ELSE "idle"

(* utils.py 41, get_or_create: self.get of the lookup *)
P_Get(p, u, c, in) ==
    /\ pc[p] = "idle"
    /\ IF GradebookRows(gradebook, u, c) = {}
       THEN /\ pc' = [pc EXCEPT ![p] = "create"]
            /\ loc' = [loc EXCEPT ![p] = [user |-> u, course_id |-> c, input |-> in,
                                          entry |-> NoRow, latest |-> NoRow]]
       ELSE \E entry \in GradebookRows(gradebook, u, c) :
            /\ pc' = [pc EXCEPT ![p] = AfterGet(entry, in)]
            /\ loc' = [loc EXCEPT ![p] =
                          IF GradeChanged(entry, in)
                          THEN [user |-> u, course_id |-> c, input |-> in,
                                entry |-> entry, latest |-> NoRow]
                          ELSE NoLocal]
    /\ UNCHANGED <<gradebook, history, clock, hook_calls, call, is_active, enrollment,
                 progress>>

(* utils.py 41-49, get_or_create: self.create of the params, in an atomic block; *)
(* the INSERT passes the unique constraint, post_save runs the receiver in  *)
(* the same transaction and line 51 finds the grade it has just stored.     *)
P_Create(p) ==
    /\ pc[p] = "create"
    /\ UniqueTogether(gradebook, loc[p].user, loc[p].course_id)
    /\ clock + 2 <= MaxTime
    /\ LET row == NewRow(gradebook, loc[p].user, loc[p].course_id, loc[p].input, clock + 1)
       IN /\ gradebook' = gradebook \cup {row}
          /\ \E latest \in FirstHistoryEntry(history, row.user, row.course_id) :
                /\ history' = save_history(history, row, latest, clock + 2)
                /\ clock' = ClockAfterHistory(history, row, latest, clock + 1)
          /\ hook_calls' = hook_calls + 1
          /\ pc' = [pc EXCEPT ![p] = AfterGet(row, loc[p].input)]
          /\ loc' = [loc EXCEPT ![p] = NoLocal]
    /\ UNCHANGED <<call, is_active, enrollment,
                 progress>>

(* get_or_create: the INSERT violates the unique constraint (another caller *)
(* created the row after this one's get), IntegrityError is caught.         *)
P_CreateIntegrityError(p) ==
    /\ pc[p] = "create"
    /\ ~UniqueTogether(gradebook, loc[p].user, loc[p].course_id)
    /\ pc' = [pc EXCEPT ![p] = "get_again"]
    /\ UNCHANGED <<gradebook, history, clock, hook_calls, call, loc, is_active, enrollment,
                 progress>>

(* get_or_create: self.get of the lookup after the IntegrityError *)
P_GetAgain(p) ==
    /\ pc[p] = "get_again"
    /\ \E entry \in GradebookRows(gradebook, loc[p].user, loc[p].course_id) :
         /\ pc' = [pc EXCEPT ![p] = AfterGet(entry, loc[p].input)]
         /\ loc' = [loc EXCEPT ![p] =
                       IF GradeChanged(entry, loc[p].input)
                       THEN [loc[p] EXCEPT !.entry = entry]
                       ELSE NoLocal]
    /\ UNCHANGED <<gradebook, history, clock, hook_calls, call, is_active, enrollment,
                 progress>>

(* utils.py 52-57: the five assignments to the instance read earlier, then  *)
(* save(): UPDATE of every column WHERE id = the instance's id.             *)
P_Save(p) ==
    /\ pc[p] = "save"
    /\ clock + 2 <= MaxTime
    /\ LET row == Overwritten(loc[p].entry, loc[p].input, clock + 1)
       IN /\ gradebook' = UpdateRow(gradebook, row)
          /\ loc' = [loc EXCEPT ![p].entry = row]
    /\ clock' = clock + 1
    /\ hook_calls' = hook_calls + 1
    /\ pc' = [pc EXCEPT ![p] = "history_fetch"]
    /\ UNCHANGED <<history, call, is_active, enrollment,
                 progress>>

(* models.py 203-206: the query is evaluated by len(history_entries) *)
P_HistoryFetch(p) ==
    /\ pc[p] = "history_fetch"
    /\ \E latest \in FirstHistoryEntry(history, loc[p].user, loc[p].course_id) :
          loc' = [loc EXCEPT ![p].latest = latest]
    /\ pc' = [pc EXCEPT ![p] = "history_save"]
    /\ UNCHANGED <<gradebook, history, clock, hook_calls, call, is_active, enrollment,
                 progress>>

(* models.py 208-231: compare with the entry fetched, save the new entry;   *)
(* generate_user_gradebook returns.                                         *)
P_HistorySave(p) ==
    /\ pc[p] = "history_save"
    /\ history' = save_history(history, loc[p].entry, loc[p].latest, clock + 1)
    /\ clock' = ClockAfterHistory(history, loc[p].entry, loc[p].latest, clock)
    /\ pc' = [pc EXCEPT ![p] = "idle"]
    /\ loc' = [loc EXCEPT ![p] = NoLocal]
    /\ UNCHANGED <<gradebook, hook_calls, call, is_active, enrollment,
                 progress>>

NextConc ==
    \E p \in Procs :
        \/ \E u \in LedgerUsers, c \in Courses, in \in ConcInputs : P_Get(p, u, c, in)
        \/ P_Create(p)
        \/ P_CreateIntegrityError(p)
        \/ P_GetAgain(p)
        \/ P_Save(p)
        \/ P_HistoryFetch(p)
        \/ P_HistorySave(p)

SpecConc == Init /\ [][NextConc]_vars

-----------------------------------------------------------------------------
(* StudentGradebook.generate_leaderboard and get_user_position              *)

DefaultCount == 3

(* views.py 356 and models.py 43: the count of the request, <<>> when the   *)
(* parameter is left out.                                                   *)
CountOf(count) == IF count = <<>> THEN DefaultCount ELSE count[1]

(* The grades of the leaderboard's rows, in thousandths. *)
BoardInputs == {BaseInput(g) : g \in BoardGrades}

(* auth User.groups: user 1 belongs to both groups, user 2 to one, user 3   *)
(* to none.                                                                 *)
UserGroups(u) ==
    CASE u = 1 -> {"g1", "g2"}
      [] u = 2 -> {"g1"}
      [] OTHER -> {}

(* models.py 76: CourseEnrollment.objects.users_enrolled_in(course_key),    *)
(* the users with an active enrollment in the course.                       *)
users_enrolled_in(enr, c) ==
    {e.user : e \in {x \in enr : x.course_id = c /\ x.is_active}}

(* ActiveEnrolled without the user's is_active flag. *)
AnyEnrolled(gb, act, enr, c) ==
    {r \in gb : /\ r.course_id = c
                /\ \E e \in enr : e.user = r.user /\ e.is_active /\ e.course_id = c}

(* models.py 80-81 and 141-147: the rows of the course whose user is active *)
(* and has an active enrollment in the course                               *)
ActiveEnrolled(gb, act, enr, c) ==
    {r \in gb : /\ r.course_id = c
                /\ r.user \in act
                /\ \E e \in enr : e.user = r.user /\ e.is_active /\ e.course_id = c}

(* BaseQueryset keeping the excluded users. *)
BaseQuerysetNoExclude(gb, act, enr, c, exclude_users) ==
    ActiveEnrolled(gb, act, enr, c)

(* models.py 80-82 and 141-148: the base data set *)
BaseQueryset(gb, act, enr, c, exclude_users) ==
    {r \in ActiveEnrolled(gb, act, enr, c) : r.user \notin exclude_users}

(* models.py 101 and 151: filter(user__groups__in=group_ids), the join      *)
(* yields one result per matching group of the user ...                     *)
GroupJoin(qs, group_ids) ==
    UNION {{r @@ [user__groups |-> g] : g \in group_ids \cap UserGroups(r.user)} :
              r \in qs}

(* The joined rows as they are, one per matching group. *)
KeepJoined(joined) == joined

(* ... and .distinct() keeps one of each row of the selected columns, the   *)
(* join columns not being among them.                                       *)
Distinct(joined) ==
    {[f \in DOMAIN jr \ {"user__groups", "user__organizations"} |-> jr[f]] :
        jr \in joined}

(* models.py 100-101, 150-151 *)
GroupFiltered(qs, group_ids) ==
    IF group_ids # {} THEN Distinct(GroupJoin(qs, group_ids)) ELSE qs

RECURSIVE SumGrades(_)
SumGrades(qs) ==
    IF qs = {} THEN 0
    ELSE LET r == CHOOSE x \in qs : TRUE
         IN r.grade + SumGrades(qs \ {r})

(* models.py 84: Max('grade'), Min('grade') over a non-empty queryset *)
MaxGrade(qs) == CHOOSE g \in {r.grade : r \in qs} : \A r \in qs : r.grade <= g

MinGrade(qs) == CHOOSE g \in {r.grade : r \in qs} : \A r \in qs : g <= r.grade

(* Format3 cutting the digits after the third instead of rounding. *)
Truncate3(num, den) == num \div den

(* models.py 95: float("{0:.3f}".format(num / den)) in thousandths: the     *)
(* nearest thousandth, an exact half going to the even one.                 *)
Format3(num, den) ==
    LET q == num \div den
        r == num % den
    IN IF 2 * r > den THEN q + 1
       ELSE IF 2 * r < den THEN q
       ELSE IF q % 2 = 0 THEN q ELSE q + 1

(* RanksBefore with the later modified first among equal grades. *)
RanksBeforeLatestFirst(a, b) ==
    \/ a.grade > b.grade
    \/ a.grade = b.grade /\ a.modified > b.modified

(* models.py 109: order_by('-grade', 'modified'): a ranks before b *)
RanksBefore(a, b) ==
    \/ a.grade > b.grade
    \/ a.grade = b.grade /\ a.modified < b.modified

RECURSIVE OrderBy(_)
OrderBy(rows) ==
    IF rows = {} THEN <<>>
    ELSE LET first == CHOOSE r \in rows : \A o \in rows \ {r} : ~RanksBefore(o, r)
         IN <<first>> \o OrderBy(rows \ {first})

(* models.py 109: [:count] *)
Slice(rows, count) ==
    SubSeq(rows, 1, IF count < Len(rows) THEN count ELSE Len(rows))

(* models.py 104-108: values('user__id', 'user__username', 'grade', 'modified') *)
Values(r) ==
    [user__id |-> r.user, user__username |-> r.user, grade |-> r.grade,
     modified |-> r.modified]

(* models.py 104-109: the result rows of the sliced, ordered queryset *)
ValuesList(rows) == [i \in 1..Len(rows) |-> Values(rows[i])]

(* DefaultTimeScored as the earliest time instead of the time of the lookup. *)
EpochTimeScored(now) == 0

(* models.py 136: user_time_scored = timezone.now(), kept when the user has *)
(* no row in the course                                                     *)
DefaultTimeScored(now) == now

(* models.py 122-161 *)
get_user_position(gb, act, enr, now, c, user_id, exclude_users, group_ids) ==
    LET user_queryset == {r \in gb : r.course_id = c /\ r.user = user_id}
        found == CHOOSE r \in user_queryset : TRUE
        user_grade == IF user_queryset # {} THEN found.grade ELSE 0
        user_time_scored == IF user_queryset # {} THEN found.created
                            ELSE DefaultTimeScored(now)
        queryset == GroupFiltered(BaseQueryset(gb, act, enr, c, exclude_users), group_ids)
        users_above ==
            Cardinality({r \in queryset :
                            \/ r.grade > user_grade
                            \/ r.grade = user_grade /\ r.modified < user_time_scored})
    IN [user_position |-> users_above + 1, user_grade |-> user_grade]

(* models.py 42-120; count is the effective count, user_id 0 stands for None *)
generate_leaderboard(gb, act, enr, now, c, user_id, group_ids, count, exclude_users) ==
    LET data0 == [course_avg |-> 0, course_max |-> 0, course_min |-> 0,
                  course_count |-> 0, queryset |-> <<>>]
        total_user_count == Cardinality(users_enrolled_in(enr, c) \ exclude_users)
        queryset == BaseQueryset(gb, act, enr, c, exclude_users)
        gradebook_user_count == Cardinality(queryset)
        data1 == [data0 EXCEPT
                    !.course_avg = Format3(SumGrades(queryset) * gradebook_user_count,
                                           gradebook_user_count * total_user_count),
                    !.course_max = MaxGrade(queryset),
                    !.course_min = MinGrade(queryset),
                    !.course_count = gradebook_user_count]
        leaders == GroupFiltered(queryset, group_ids)
        data2 == [data1 EXCEPT
                    !.queryset = ValuesList(Slice(OrderBy(leaders), count))]
    IN IF total_user_count # 0
       THEN IF gradebook_user_count # 0
            THEN IF user_id # 0
                 THEN get_user_position(gb, act, enr, now, c, user_id,
                                        exclude_users, group_ids) @@ data2
                 ELSE data2
            ELSE data0
       ELSE data0

(* views.py 349-369 with models.py 43: the leaders view, count left out or  *)
(* given.  The read changes no table.                                       *)
Leaderboard(c, user_id, group_ids, count, exclude_users) ==
    /\ call' = [op |-> "leaderboard", course_id |-> c, user_id |-> user_id,
                group_ids |-> group_ids, count |-> count,
                exclude_users |-> exclude_users,
                data |-> generate_leaderboard(
                            gradebook, is_active, enrollment, clock + 1, c, user_id,
                            group_ids, CountOf(count),
                            exclude_users)]
    /\ UNCHANGED <<gradebook, history, clock, hook_calls, pc, loc, is_active, enrollment,
                 progress>>

(* The stores the leaderboard is read from: every user has an enrollment    *)
(* row of the course; either all are active and enrolled, or user 3 has     *)
(* been deactivated, or users 2 and 3 have unenrolled.                      *)
InitBoard ==
    /\ gradebook = {}
    /\ history = <<>>
    /\ clock = 0
    /\ hook_calls = 0
    /\ call = NoCall
    /\ pc = [p \in Procs |-> "idle"]
    /\ loc = [p \in Procs |-> NoLocal]
    /\ progress = {}
    /\ \E env \in {<<{}, {}>>, <<{3}, {}>>, <<{}, {2, 3}>>} :
          /\ is_active = Users \ env[1]
          /\ enrollment = {[user |-> u, course_id |-> c, is_active |-> u \notin env[2]] :
                              u \in Users, c \in Courses}

NextBoard ==
    \/ \E u \in Users, c \in Courses, in \in BoardInputs :
          generate_user_gradebook(u, c, in, BoardMaxTime)
    \/ \E c \in Courses, user_id \in {0, 2, 3}, group_ids \in {{}, GroupIds},
          count \in {<<>>, <<1>>, <<2>>}, exclude_users \in {{}, {1}} :
          Leaderboard(c, user_id, group_ids, count, exclude_users)

SpecBoard == InitBoard /\ [][NextBoard]_vars

-----------------------------------------------------------------------------
(* The course metrics view and the count of users who completed             *)

(* The (grade, proforma_grade) pairs of the completion inputs, in           *)
(* thousandths.                                                             *)
CompletionGrades == {<<750, 755>>, <<750, 0>>, <<750, 800>>, <<740, 750>>}

CompletionInputs ==
    {[BaseInput(gp[1]) EXCEPT !.proforma_grade = gp[2]] : gp \in CompletionGrades}

OrgIds == {"o1", "o2"}

(* organizations of the users: user 1 belongs to both, user 2 to one, user  *)
(* 3 to none.                                                               *)
UserOrganizations(u) ==
    CASE u = 1 -> {"o1", "o2"}
      [] u = 2 -> {"o1"}
      [] OTHER -> {}

(* models.py 167: GRADEBOOK_GRADE_COMPLETE_PROFORMA_MATCH_RANGE left unset,  *)
(* 0.01 in thousandths                                                      *)
GradeCompleteMatchRange == 10

(* GradeComplete without the match range. *)
GradeCompleteNoRange(r) ==
    /\ r.proforma_grade <= r.grade
    /\ r.proforma_grade > 0

(* models.py 172-173: proforma_grade__lte=F('grade') + range and            *)
(* proforma_grade__gt=0                                                     *)
GradeComplete(r) ==
    /\ r.proforma_grade <= r.grade + GradeCompleteMatchRange
    /\ r.proforma_grade > 0

(* models.py 176-177 and views.py 74: filter(user__organizations__in=...),   *)
(* one result per matching organization of the user                         *)
OrgJoin(qs, org_ids) ==
    UNION {{r @@ [user__organizations |-> o] : o \in org_ids \cap UserOrganizations(r.user)} :
              r \in qs}

(* models.py 162-181 *)
get_num_users_completed(gb, act, enr, c, exclude_users, org_ids, group_ids) ==
    LET filtered == {r \in ActiveEnrolled(gb, act, enr, c) : GradeComplete(r)}
        queryset == {r \in filtered : r.user \notin exclude_users}
        of_orgs == IF org_ids # {} THEN OrgJoin(queryset, org_ids) ELSE queryset
        of_groups == IF group_ids # {} THEN GroupJoin(of_orgs, group_ids) ELSE of_orgs
    IN Cardinality(Distinct(of_groups))

(* views.py 68-80: the users enrolled, of the organization and groups asked *)
UsersEnrolled(enr, c, exclude_users, org_ids, group_ids) ==
    {u \in users_enrolled_in(enr, c) \ exclude_users :
        /\ org_ids # {} => org_ids \cap UserOrganizations(u) # {}
        /\ group_ids # {} => group_ids \cap UserGroups(u) # {}}

(* views.py 60-107 with metrics_required=users_completed; org_ids is empty  *)
(* or the one organization of the request.  The read changes no table.      *)
CoursesMetrics(c, exclude_users, org_ids, group_ids) ==
    /\ call' = [op |-> "metrics", course_id |-> c, exclude_users |-> exclude_users,
                org_ids |-> org_ids, group_ids |-> group_ids,
                data |-> [users_enrolled |->
                              Cardinality(UsersEnrolled(enrollment, c, exclude_users,
                                                        org_ids, group_ids)),
                          users_completed |->
                              get_num_users_completed(gradebook, is_active, enrollment, c,
                                                      exclude_users, org_ids, group_ids)]]
    /\ UNCHANGED <<gradebook, history, clock, hook_calls, pc, loc, is_active, enrollment,
                 progress>>

NextCompletion ==
    \/ \E u \in Users, c \in Courses, in \in CompletionInputs :
          generate_user_gradebook(u, c, in, CompletionMaxTime)
    \/ \E c \in Courses, exclude_users \in {{}, {2}}, org_ids \in {{}} \cup {{o} : o \in OrgIds},
          group_ids \in {{}, GroupIds} :
          CoursesMetrics(c, exclude_users, org_ids, group_ids)

SpecCompletion == InitBoard /\ [][NextCompletion]_vars

-----------------------------------------------------------------------------
(* The time series metrics view                                             *)

(* The length of a day in readings of the clock. *)
DayLength == 2

(* The inputs of the upserts seen by the time series: one whose proforma    *)
(* grade is within the match range of its grade and one whose is not.       *)
SeriesInputs ==
    {[BaseInput(750) EXCEPT !.proforma_grade = 755],
     [BaseInput(740) EXCEPT !.proforma_grade = 800]}

(* CourseEnrollment.created: the users enrolled one after the other before  *)
(* the first grade was stored, user 3 last at time 0.                       *)
EnrollmentCreated(u) == u - 3

(* The CourseEnrollment rows with their created column. *)
EnrollmentRows(enr) ==
    {[id |-> e.user, user |-> e.user, course_id |-> e.course_id,
      is_active |-> e.is_active, created |-> EnrollmentCreated(e.user)] : e \in enr}

(* CourseModuleCompletion.get_actual_completions(): the completions stored  *)
(* by the progress app.                                                     *)
CourseModuleCompletions ==
    {[id |-> 1, user |-> 1, course_id |-> "c1", created |-> 1],
     [id |-> 2, user |-> 1, course_id |-> "c1", created |-> 2],
     [id |-> 3, user |-> 2, course_id |-> "c1", created |-> 4]}

(* StudentModule rows of courseware; user stands for the student column. *)
StudentModules ==
    {[id |-> 1, user |-> 1, course_id |-> "c1", modified |-> 1],
     [id |-> 2, user |-> 1, course_id |-> "c1", modified |-> 2],
     [id |-> 3, user |-> 3, course_id |-> "c1", modified |-> 4]}

(* views.py 170: the intervals the view accepts, as fixed lengths *)
IntervalLength(interval) ==
    CASE interval = "days" -> DayLength
      [] interval = "weeks" -> 7 * DayLength
      [] interval = "months" -> 30 * DayLength

(* get_time_series_data of gradebook/api_utils.py: the pairs (start of      *)
(* bucket, count) of the buckets of the interval's length that cover        *)
(* [start, end), the first one starting at start; dated is the set of       *)
(* (counted key, time) pairs of the queryset and a bucket counts the        *)
(* distinct keys whose time falls in it.                                    *)
get_time_series_data(dated, start, end, interval) ==
    LET width == IntervalLength(interval)
        buckets == IF end <= start THEN 0 ELSE (end - start + width - 1) \div width
        Low(k) == start + (k - 1) * width
        High(k) == IF Low(k) + width < end THEN Low(k) + width ELSE end
    IN [k \in 1..buckets |->
          <<Low(k), Cardinality({d[1] : d \in {x \in dated : Low(k) <= x[2] /\ x[2] < High(k)}})>>]

(* views.py 205-219: the organization filter, then the group filter with    *)
(* its distinct()                                                           *)
OfOrganizationAndGroups(qs, org_ids, group_ids) ==
    LET of_org == IF org_ids # {} THEN OrgJoin(qs, org_ids) ELSE qs
    IN IF group_ids # {} THEN Distinct(GroupJoin(of_org, group_ids)) ELSE of_org

(* views.py 180-203: rows of the course whose user is active, has an active *)
(* enrollment in the course and is not excluded                             *)
OfEligibleUsers(rows, act, enr, c, exclude_users) ==
    {r \in rows : /\ r.course_id = c
                  /\ r.user \in act
                  /\ \E e \in enr : e.user = r.user /\ e.is_active /\ e.course_id = c
                  /\ r.user \notin exclude_users}

(* NotStartedSeries with the totals left at their seeds. *)
RECURSIVE NotStartedPerBucket(_, _, _, _)
NotStartedPerBucket(enrolled_series, started_series, total_enrolled, total_started) ==
    IF enrolled_series = <<>> \/ started_series = <<>> THEN <<>>
    ELSE LET enrolled == Head(enrolled_series)
             started == Head(started_series)
         IN <<<<started[1],
                (total_enrolled + enrolled[2]) - (total_started + started[2])>>>>
            \o NotStartedPerBucket(Tail(enrolled_series), Tail(started_series),
                                   total_enrolled, total_started)

(* views.py 254-258: the loop over zip(enrolled_series, started_series) *)
RECURSIVE NotStartedSeries(_, _, _, _)
NotStartedSeries(enrolled_series, started_series, total_enrolled, total_started) ==
    IF enrolled_series = <<>> \/ started_series = <<>> THEN <<>>
    ELSE LET enrolled == Head(enrolled_series)
             started == Head(started_series)
         IN <<<<started[1],
                (total_enrolled + enrolled[2]) - (total_started + started[2])>>>>
            \o NotStartedSeries(Tail(enrolled_series), Tail(started_series),
                                total_enrolled + enrolled[2],
                                total_started + started[2])

ActiveUsersWindowUnshifted(dt) == dt

(* views.py 246-247: the window of the active users is a day earlier *)
ActiveUsersWindow(dt) == dt - DayLength

(* views.py 160-270; start and end are <<>> when the request leaves them    *)
(* out, org_ids is empty or the one organization of the request            *)
time_series_metrics(gb, act, enr, prog, c, start, end, interval, exclude_users, org_ids, group_ids) ==
    IF c \notin Courses THEN [status |-> 404]
    ELSE IF start = <<>> \/ end = <<>> THEN [status |-> 400, message |-> "dates"]
    ELSE IF interval \notin {"days", "weeks", "months"}
    THEN [status |-> 400, message |-> "interval"]
    ELSE
    LET start_dt == start[1]
        end_dt == end[1]
        Filtered(qs) == OfOrganizationAndGroups(qs, org_ids, group_ids)
        grades_qs == BaseQueryset(gb, act, enr, c, exclude_users)
        grades_complete_qs == Filtered({r \in grades_qs : GradeComplete(r)})
        enrolled_qs ==
            Filtered(OfEligibleUsers(EnrollmentRows(enr), act, enr, c, exclude_users))
        users_started_qs == Filtered(OfEligibleUsers(prog, act, enr, c, exclude_users))
        modules_completed_qs ==
            Filtered(OfEligibleUsers(CourseModuleCompletions, act, enr, c, exclude_users))
        active_users_qs ==
            Filtered(OfEligibleUsers(StudentModules, act, enr, c, exclude_users))
        total_enrolled == Cardinality({r \in enrolled_qs : r.created < start_dt})
        total_started ==
            Cardinality({r.user : r \in {x \in users_started_qs : x.created < start_dt}})
        enrolled_series ==
            get_time_series_data({<<r.id, r.created>> : r \in enrolled_qs},
                                 start_dt, end_dt, interval)
        started_series ==
            get_time_series_data({<<r.user, r.created>> : r \in users_started_qs},
                                 start_dt, end_dt, interval)
        completed_series ==
            get_time_series_data({<<r.id, r.modified>> : r \in grades_complete_qs},
                                 start_dt, end_dt, interval)
        modules_completed_series ==
            get_time_series_data({<<r.id, r.created>> : r \in modules_completed_qs},
                                 start_dt, end_dt, interval)
        active_users_series ==
            get_time_series_data({<<r.user, r.modified>> : r \in active_users_qs},
                                 ActiveUsersWindow(start_dt), ActiveUsersWindow(end_dt),
                                 interval)
        not_started_series ==
            NotStartedSeries(enrolled_series, started_series, total_enrolled, total_started)
    IN [status |-> 200,
        data |-> [users_not_started |-> not_started_series,
                  users_started |-> started_series,
                  users_completed |-> completed_series,
                  modules_completed |-> modules_completed_series,
                  users_enrolled |-> enrolled_series,
                  active_users |-> active_users_series]]

(* The request of the view.  The read changes no table. *)
CoursesTimeSeriesMetrics(c, start, end, interval, exclude_users, org_ids, group_ids) ==
    /\ call' = [op |-> "time_series", course_id |-> c, start |-> start, end |-> end,
                interval |-> interval, exclude_users |-> exclude_users,
                org_ids |-> org_ids, group_ids |-> group_ids,
                response |-> time_series_metrics(gradebook, is_active, enrollment,
                                                 progress, c, start, end, interval,
                                                 exclude_users, org_ids, group_ids)]
    /\ UNCHANGED <<gradebook, history, clock, hook_calls, pc, loc, is_active, enrollment,
                   progress>>

(* The progress app stores the StudentProgress row of a user who starts the *)
(* course.                                                                  *)
StartCourse(u, c, limit) ==
    /\ clock < limit
    /\ \A r \in progress : ~(r.user = u /\ r.course_id = c)
    /\ clock' = clock + 1
    /\ progress' = progress \cup {[user |-> u, course_id |-> c, created |-> clock + 1]}
    /\ call' = [op |-> "start", user |-> u, course_id |-> c]
    /\ UNCHANGED <<gradebook, history, hook_calls, pc, loc, is_active, enrollment>>

(* The windows asked for by day, with both dates. *)
SeriesWindows ==
    {<<<<-2>>, <<4>>>>, <<<<-1>>, <<4>>>>, <<<<0>>, <<SeriesMaxTime>>>>,
     <<<<2>>, <<SeriesMaxTime + 1>>>>}

(* The user filters asked for: none, an excluded user, an organization,     *)
(* the groups.                                                              *)
SeriesFilters ==
    {<<{}, {}, {}>>, <<{1}, {}, {}>>, <<{}, {"o1"}, {}>>, <<{}, {}, GroupIds>>}

(* The other requests: of no course, without a date, by another interval,   *)
(* of a window that ends before it starts.                                  *)
OtherSeriesRequests ==
    {<<"c0", <<-2>>, <<4>>, "days">>, <<"c1", <<>>, <<4>>, "days">>,
     <<"c1", <<-2>>, <<>>, "days">>, <<"c1", <<-2>>, <<4>>, "hours">>,
     <<"c1", <<-2>>, <<4>>, "weeks">>, <<"c1", <<-2>>, <<4>>, "months">>,
     <<"c1", <<4>>, <<0>>, "days">>}

(* The stores the time series are read from: every user is enrolled, or     *)
(* user 3 has been deactivated and user 2 has unenrolled.                   *)
InitSeries ==
    /\ gradebook = {}
    /\ history = <<>>
    /\ clock = 0
    /\ hook_calls = 0
    /\ call = NoCall
    /\ pc = [p \in Procs |-> "idle"]
    /\ loc = [p \in Procs |-> NoLocal]
    /\ progress = {}
    /\ \E inactive \in {{}, {3}} :
          /\ is_active = Users \ inactive
          /\ enrollment = {[user |-> u, course_id |-> c,
                            is_active |-> (inactive = {} \/ u # 2)] :
                              u \in Users, c \in Courses}

NextSeries ==
    \/ \E u \in LedgerUsers, c \in Courses, in \in SeriesInputs :
          generate_user_gradebook(u, c, in, SeriesMaxTime)
    \/ \E u \in Users, c \in Courses : StartCourse(u, c, SeriesMaxTime)
    \/ \E c \in Courses, w \in SeriesWindows, f \in SeriesFilters :
          CoursesTimeSeriesMetrics(c, w[1], w[2], "days", f[1], f[2], f[3])
    \/ \E r \in OtherSeriesRequests :
          CoursesTimeSeriesMetrics(r[1], r[2], r[3], r[4], {}, {}, {})

SpecSeries == InitSeries /\ [][NextSeries]_vars

-----------------------------------------------------------------------------
(* The grade summaries: text is a sequence of characters                    *)

Digits == <<"0", "1", "2", "3", "4", "5", "6", "7", "8", "9">>

IsDigit(ch) == \E i \in 1..10 : Digits[i] = ch

DigitValue(ch) == (CHOOSE i \in 1..10 : Digits[i] = ch) - 1

(* str(n) of a natural number *)
RECURSIVE IntStr(_)
IntStr(n) ==
    IF n < 10 THEN <<Digits[n + 1]>>
    ELSE IntStr(n \div 10) \o <<Digits[(n % 10) + 1]>>

(* the number a run of digits stands for, 0 for the empty run *)
RECURSIVE DigitsValue(_)
DigitsValue(s) ==
    IF s = <<>> THEN 0
    ELSE 10 * DigitsValue(SubSeq(s, 1, Len(s) - 1)) + DigitValue(s[Len(s)])

(* 'ch in s' of a one-character ch *)
Contains(s, ch) == \E i \in 1..Len(s) : s[i] = ch

(* s.split(ch): the pieces of s between the occurrences of ch, one piece    *)
(* more than there are occurrences                                          *)
RECURSIVE Split(_, _)
Split(s, ch) ==
    IF ~Contains(s, ch) THEN <<s>>
    ELSE LET i == CHOOSE k \in 1..Len(s) :
                     s[k] = ch /\ \A j \in 1..(k - 1) : s[j] # ch
         IN <<SubSeq(s, 1, i - 1)>> \o Split(SubSeq(s, i + 1, Len(s)), ch)

(* ' '.join(words) *)
RECURSIVE Join(_)
Join(words) ==
    IF words = <<>> THEN <<>>
    ELSE IF Len(words) = 1 THEN words[1]
    ELSE words[1] \o <<" ">> \o Join(Tail(words))

(* float(s) of a text of digits with at most one point and at most three    *)
(* decimals: <<the number in thousandths>>, or <<>> when float raises       *)
(* ValueError                                                               *)
ParseFloat(s) ==
    LET parts == Split(s, ".")
        whole == parts[1]
        decimals == IF Len(parts) = 2 THEN parts[2] ELSE <<>>
        padded == decimals \o SubSeq(<<"0", "0", "0">>, 1, 3 - Len(decimals))
    IN IF /\ Len(parts) <= 2
          /\ Len(whole) + Len(decimals) > 0
          /\ Len(decimals) <= 3
          /\ \A i \in 1..Len(whole) : IsDigit(whole[i])
          /\ \A i \in 1..Len(decimals) : IsDigit(decimals[i])
       THEN <<1000 * DigitsValue(whole) + DigitsValue(padded)>>
       ELSE <<>>

(* '{:0.2f}'.format(x) of x in thousandths, in binary exactly the number    *)
(* written: the nearest hundredth, an exact half going to the even one      *)
Fixed2(thousandths) ==
    LET q == thousandths \div 10
        r == thousandths % 10
        hundredths == IF r > 5 \/ (r = 5 /\ q % 2 = 1) THEN q + 1 ELSE q
    IN IntStr(hundredths \div 100) \o <<".">>
       \o <<Digits[((hundredths \div 10) % 10) + 1], Digits[(hundredths % 10) + 1]>>

(* Python values: a text, a float or an int in thousandths, or None         *)
Unicode(s) == [type |-> "unicode", value |-> s]

Float(thousandths) == [type |-> "float", value |-> thousandths]

IntValue(n) == [type |-> "int", value |-> 1000 * n]

None == [type |-> "NoneType", value |-> 0]

(* what a call that raised leaves to its caller *)
Raised(exception) == [error |-> exception]

IsRaised(result) == DOMAIN result = {"error"}

(* what a call that came to its end leaves: for the summaries, the list as  *)
(* the call has changed it                                                  *)
Returned(value) == [value |-> value]

(* float(v): <<thousandths>>, or <<>> for ValueError *)
ToFloat(v) == IF v.type = "unicode" THEN ParseFloat(v.value) ELSE <<v.value>>

(* '{}'.format(v): the text itself, the digits of an int, and for a float   *)
(* the digits with the decimals it needs, one at least                      *)
ToStr(v) ==
    LET whole == IntStr(v.value \div 1000)
        d1 == Digits[((v.value \div 100) % 10) + 1]
        d2 == Digits[((v.value \div 10) % 10) + 1]
        d3 == Digits[(v.value % 10) + 1]
    IN CASE v.type = "unicode" -> v.value
         [] v.type = "int" -> whole
         [] v.type = "float" /\ v.value % 10 # 0 -> whole \o <<".", d1, d2, d3>>
         [] v.type = "float" /\ v.value % 100 # 0 -> whole \o <<".", d1, d2>>
         [] OTHER -> whole \o <<".", d1>>

(* course.grade_cutoffs by falling cutoff, in thousandths *)
get_ordered_grades == <<<<"A", 800>>, <<"Pass", 500>>>>

(* the collaborator's lookup: the first grade whose cutoff percent reaches *)
get_letter_grade(percent, ordered_grades) ==
    LET reached == {i \in 1..Len(ordered_grades) : percent.value >= ordered_grades[i][2]}
    IN IF percent.type \notin {"float", "int"} \/ reached = {} THEN None
       ELSE Unicode(<<ordered_grades[CHOOSE i \in reached : \A j \in reached : i <= j][1]>>)

(* sum of a field over a list of scores, starting from the int 0 *)
RECURSIVE SumScores(_, _)
SumScores(scores, field) ==
    IF scores = <<>> THEN IntValue(0)
    ELSE Float(SumScores(SubSeq(scores, 1, Len(scores) - 1), field).value
               + scores[Len(scores)][field])

PercentLetterGradeNone(percent, ordered_grades) == None

(* letter_grade of a section whose percent is not a text *)
PercentLetterGrade(percent, ordered_grades) ==
    IF percent.type = "float" /\ percent.value > 0
    THEN get_letter_grade(percent, ordered_grades)
    ELSE None

(* displayed_value: a text percent as it is, else the override the section  *)
(* has unless that is empty, else 100 * percent with two decimals and '%'   *)
DisplayedValue(section) ==
    IF section.percent.type = "unicode" THEN section.percent
    ELSE IF /\ "displayed_value" \in DOMAIN section
            /\ section.displayed_value \notin {None, Unicode(<<>>)}
         THEN section.displayed_value
         ELSE Unicode(Fixed2(100 * section.percent.value) \o <<"%">>)

(* the '-' case: the last word of the label, the text between its first '(' *)
(* and the next '/', and the text between the first '/' and the first ')';  *)
(* an index past the pieces of a split raises IndexError                    *)
ScoresFromLabel(detail) ==
    LET words == Split(detail, " ")
        score_from_label == words[Len(words)]
        opened == Split(score_from_label, "(")
        closed == Split(Split(score_from_label, ")")[1], "/")
    IN IF Len(opened) < 2 \/ Len(closed) < 2 THEN Raised("IndexError")
       ELSE [score_earned |-> Unicode(Split(opened[2], "/")[1]),
             score_possible |-> Unicode(closed[2])]

(* the '=' case: the sums over the scores of the section's category *)
ScoresFromTotals(section, totaled_scores) ==
    LET scores == IF section.category \in DOMAIN totaled_scores
                  THEN totaled_scores[section.category] ELSE <<>>
    IN [score_earned |-> SumScores(scores, "earned"),
        score_possible |-> SumScores(scores, "possible")]

(* the last case: what the section has, 0 for what it has not *)
ScoresFromSection(section) ==
    [score_earned |-> IF "score_earned" \in DOMAIN section
                      THEN section.score_earned ELSE IntValue(0),
     score_possible |-> IF "score_possible" \in DOMAIN section
                        THEN section.score_possible ELSE IntValue(0)]

ScoresDashFirst(section, totaled_scores) ==
    IF Contains(section.detail, "-") THEN ScoresFromLabel(section.detail)
    ELSE IF Contains(section.detail, "=") THEN ScoresFromTotals(section, totaled_scores)
    ELSE ScoresFromSection(section)

(* score_earned and score_possible of a section, by its detail *)
Scores(section, totaled_scores) ==
    IF Contains(section.detail, "=") THEN ScoresFromTotals(section, totaled_scores)
    ELSE IF Contains(section.detail, "-") THEN ScoresFromLabel(section.detail)
    ELSE ScoresFromSection(section)

(* the two scores as floats with two decimals, or as they are when float    *)
(* raises for one of them                                                   *)
GradeDescription(score_earned, score_possible) ==
    LET earned == ToFloat(score_earned)
        possible == ToFloat(score_possible)
    IN IF earned # <<>> /\ possible # <<>>
       THEN <<"(">> \o Fixed2(earned[1]) \o <<"/">> \o Fixed2(possible[1]) \o <<")">>
       ELSE <<"(">> \o ToStr(score_earned) \o <<"/">> \o ToStr(score_possible) \o <<")">>

(* one pass of the loop over section_breakdown *)
UpdateSection(section, totaled_scores, ordered_grades) ==
    LET scores == Scores(section, totaled_scores)
    IN IF IsRaised(scores) THEN scores
       ELSE [displayed_value |-> DisplayedValue(section),
             grade_description |->
                 Unicode(GradeDescription(scores.score_earned, scores.score_possible)),
             letter_grade |-> IF section.percent.type = "unicode" THEN None
                              ELSE PercentLetterGrade(section.percent, ordered_grades),
             score_earned |-> scores.score_earned,
             score_possible |-> scores.score_possible] @@ section

(* one pass of the loop over grade_summaries *)
UpdateSummary(student_summary, ordered_grades) ==
    LET grade_summary == student_summary.grade_summary
        sections == [i \in 1..Len(grade_summary.section_breakdown) |->
                        UpdateSection(grade_summary.section_breakdown[i],
                                      grade_summary.totaled_scores, ordered_grades)]
    IN IF \E i \in 1..Len(sections) : IsRaised(sections[i])
       THEN Raised("IndexError")
       ELSE [student_summary EXCEPT !.grade_summary =
                [current_letter_grade |->
                     get_letter_grade(grade_summary.current_percent, ordered_grades),
                 total_letter_grade |->
                     get_letter_grade(grade_summary.percent, ordered_grades),
                 section_breakdown |-> sections] @@ grade_summary]

(* the summaries as the function leaves them, or the exception it raises *)
update_grade_summaries(grade_summaries, ordered_grades) ==
    LET updated == [i \in 1..Len(grade_summaries) |->
                       UpdateSummary(grade_summaries[i], ordered_grades)]
    IN IF \E i \in 1..Len(updated) : IsRaised(updated[i])
       THEN Raised("IndexError")
       ELSE Returned(updated)

ScanLastGreatest(student_info) ==
    LET count(i) == student_info[i].grade_summary.manual_graded_total_count
        largest == {i \in 1..Len(student_info) :
                       \A j \in 1..Len(student_info) : count(j) <= count(i)}
    IN IF student_info = <<>> THEN [len_of_modules |-> 0, greatest_student_index |-> <<>>]
       ELSE LET last == CHOOSE i \in largest : \A j \in largest : j <= i
            IN [len_of_modules |-> count(last), greatest_student_index |-> <<last - 1>>]

(* the loop over the students: the largest manual_graded_total_count seen   *)
(* and the index, from 0, of the first entry that has it; <<>> is None      *)
RECURSIVE Scan(_)
Scan(student_info) ==
    IF student_info = <<>> THEN [len_of_modules |-> 0, greatest_student_index |-> <<>>]
    ELSE LET index == Len(student_info) - 1
             before == Scan(SubSeq(student_info, 1, index))
             count == student_info[index + 1].grade_summary.manual_graded_total_count
         IN IF before.len_of_modules < count
            THEN [len_of_modules |-> count, greatest_student_index |-> <<index>>]
            ELSE before

(* student_info.insert(0, student_info.pop(index)), index from 0 *)
MoveToFront(student_info, index) ==
    <<student_info[index + 1]>> \o SubSeq(student_info, 1, index)
    \o SubSeq(student_info, index + 2, Len(student_info))

(* what the collaborator that marks the manually graded blocks is called    *)
(* with: the entries in the order of the students, the greatest one moved   *)
(* to the front when it is not there; None > 0 is false                     *)
PatcherArguments(students) ==
    LET student_info == [i \in 1..Len(students) |->
                            [user_id |-> students[i].id,
                             grade_summary |-> students[i].student_grades]]
        scan == Scan(student_info)
        index == scan.greatest_student_index
    IN [student_info |-> IF index # <<>> /\ index[1] > 0 /\ scan.len_of_modules > 0
                         THEN MoveToFront(student_info, index[1])
                         ELSE student_info,
        greatest_student_index |-> index,
        len_of_modules |-> scan.len_of_modules]

(* the collaborator gives the list back, entry by entry *)
manual_grading_xblock_patcher(student_info, greatest_student_index, len_of_modules) ==
    student_info

get_grade_summaries(students) ==
    LET arguments == PatcherArguments(students)
    IN manual_grading_xblock_patcher(arguments.student_info,
                                     arguments.greatest_student_index,
                                     arguments.len_of_modules)

get_updated_grade_summaries(students) ==
    update_grade_summaries(get_grade_summaries(students), get_ordered_grades)

(* The summaries the views are asked for                                    *)

MaxWords == 2

MaxStudents == 3

(* words of a section's label: names, the two marks, a percent, scores in   *)
(* brackets and brackets that miss a part                                   *)
LabelWords ==
    {<<"H", "W">>,
     <<"=">>,
     <<"-">>,
     <<"0", "%">>,
     <<"(", "3", "/", "1", "0", ")">>,
     <<"(", "?", "/", "?", ")">>,
     <<"(", "0", ".", "1", "2", "5", "/", "2", ".", "5", ")">>,
     <<"3", "/", "1", "0", ")">>,
     <<"(", "3", ")">>,
     <<"x", "-", "y">>,
     <<"(", "3", "/", "1", "0">>,
     <<>>}

RECURSIVE WordLists(_)
WordLists(n) ==
    IF n = 0 THEN {<<>>}
    ELSE WordLists(n - 1)
         \cup {Append(words, w) : words \in WordLists(n - 1), w \in LabelWords}

ExamTotal == <<"E", "x", "a", "m", " ", "2", " ", "=", " ", "0", "%">>

UnreleasedHomework == <<"H", "W", "1", "4", " ", "U", "n", "r", "e", "l", "e", "a", "s", "e", "d", " ", "-", " ", "0", "%", " ", "(", "?", "/", "?", ")">>

HomeworkNoScore == <<"H", "o", "m", "e", "w", "o", "r", "k", " ", "-", " ", "0", "%">>

MidTermTotal == <<"M", "i", "d", "-", "t", "e", "r", "m", " ", "=", " ", "(", "3", "/", "1", "0", ")">>

Details ==
    {Join(words) : words \in WordLists(MaxWords)}
    \cup {ExamTotal, UnreleasedHomework, HomeworkNoScore, MidTermTotal}

(* raw scores by category, as student_grades keeps them *)
TotaledScores ==
    {<<>>,
     [hw |-> <<>>],
     [hw |-> <<[earned |-> 3000, possible |-> 10000]>>],
     [hw |-> <<[earned |-> 3000, possible |-> 10000], [earned |-> 1500, possible |-> 2000]>>]}

(* the scores a section may come with *)
SectionScores ==
    {<<>>,
     [score_earned |-> Float(1500), score_possible |-> Float(2000)],
     [score_earned |-> Unicode(<<"?">>), score_possible |-> Float(2000)],
     [score_earned |-> IntValue(1)]}

Percents == {Unicode(<<"N", "/", "A">>), Float(0), Float(500), Float(855), IntValue(0)}

Overrides == {<<>>, [displayed_value |-> Unicode(<<"B", "+">>)],
              [displayed_value |-> Unicode(<<>>)], [displayed_value |-> None]}

(* sections: every label with every set of scores, and every percent with   *)
(* every override                                                           *)
Sections ==
    {[percent |-> Float(855), detail |-> d, category |-> "hw"] @@ sc :
        d \in Details, sc \in SectionScores}
    \cup {[percent |-> p, detail |-> d, category |-> "hw"] @@ o :
            p \in Percents, o \in Overrides, d \in {ExamTotal, UnreleasedHomework}}

(* what student_grades gives for a student *)
GradeSummary(sections, totaled_scores, count) ==
    [current_percent |-> Float(855), percent |-> Float(500),
     section_breakdown |-> sections, totaled_scores |-> totaled_scores,
     manual_graded_total_count |-> count]

(* the sections of a student of a cohort: user 1 a total and a homework,    *)
(* user 2 a homework, user 3 a section with its own scores                  *)
CohortSections(u) ==
    CASE u = 1 -> <<[percent |-> Float(855), detail |-> ExamTotal, category |-> "hw"],
                    [percent |-> Float(0), detail |-> UnreleasedHomework, category |-> "hw"]>>
      [] u = 2 -> <<[percent |-> Float(500), detail |-> UnreleasedHomework, category |-> "hw"]>>
      [] OTHER -> <<[percent |-> Unicode(<<"N", "/", "A">>), detail |-> <<"H", "W">>,
                     category |-> "hw", score_earned |-> Float(1500),
                     score_possible |-> Float(2000)]>>

ManualGradedCounts == {0, 1, 2}

RECURSIVE Cohorts(_)
Cohorts(n) ==
    IF n = 0 THEN {<<>>}
    ELSE Cohorts(n - 1)
         \cup {Append(students,
                      [id |-> u,
                       student_grades |->
                           GradeSummary(CohortSections(u),
                                        [hw |-> <<[earned |-> 3000, possible |-> 10000]>>],
                                        count)]) :
                  students \in {c \in Cohorts(n - 1) : Len(c) = n - 1},
                  u \in Users, count \in ManualGradedCounts}

(* the pages of students: one student with one section of any kind, and the *)
(* cohorts of different students                                            *)
StudentPages ==
    {<<[id |-> 1, student_grades |-> GradeSummary(<<section>>, totaled_scores, 0)]>> :
        section \in Sections, totaled_scores \in TotaledScores}
    \cup {students \in Cohorts(MaxStudents) :
             \A i, j \in 1..Len(students) : students[i].id = students[j].id => i = j}

(* The same two steps as methods of the CourseGradeBook view (views.py)     *)

(* views.py 393-394 *)
CourseGradeBook_get_ordered_grades == <<<<"A", 800>>, <<"Pass", 500>>>>

(* views.py 427-455: len_of_modules and greatest_student_index after the    *)
(* first n students                                                         *)
RECURSIVE CourseGradeBookLoop(_, _)
CourseGradeBookLoop(students, n) ==
    IF n = 0 THEN <<0, <<>>>>
    ELSE LET before == CourseGradeBookLoop(students, n - 1)
             count == students[n].student_grades.manual_graded_total_count
         IN IF before[1] < count THEN <<count, <<n - 1>>>> ELSE before

(* views.py 424-462: the arguments of the call of the patcher *)
CourseGradeBookPatcherArguments(students) ==
    LET student_info == [i \in 1..Len(students) |->
                            [user_id |-> students[i].id,
                             grade_summary |-> students[i].student_grades]]
        after == CourseGradeBookLoop(students, Len(students))
        len_of_modules == after[1]
        greatest_student_index == after[2]
        popped == student_info[greatest_student_index[1] + 1]
        left == [i \in 1..(Len(student_info) - 1) |->
                    IF i <= greatest_student_index[1]
                    THEN student_info[i] ELSE student_info[i + 1]]
    IN [student_info |->
            IF greatest_student_index # <<>> /\ greatest_student_index[1] > 0
               /\ len_of_modules > 0
            THEN <<popped>> \o left
            ELSE student_info,
        greatest_student_index |-> greatest_student_index,
        len_of_modules |-> len_of_modules]

(* views.py 424-463 *)
CourseGradeBook_get_grade_summaries(students) ==
    LET arguments == CourseGradeBookPatcherArguments(students)
    IN manual_grading_xblock_patcher(arguments.student_info,
                                     arguments.greatest_student_index,
                                     arguments.len_of_modules)

CourseGradeBookSectionDashFirst(section, totaled_scores, ordered_grades) ==
    LET updated == UpdateSection(section, totaled_scores, ordered_grades)
        scores == ScoresDashFirst(section, totaled_scores)
    IN IF IsRaised(scores) THEN scores
       ELSE IF IsRaised(updated) THEN updated
       ELSE [updated EXCEPT !.score_earned = scores.score_earned,
                            !.score_possible = scores.score_possible]

(* views.py 473-518: one section; the result is the section with its five   *)
(* new values, or IndexError from the subscripts of lines 501 and 502       *)
CourseGradeBookSection(section, totaled_scores, ordered_grades) ==
    LET percent == section.percent
        detail == section.detail
        numeric == percent.type # "unicode"
        override == IF "displayed_value" \in DOMAIN section
                    THEN section.displayed_value ELSE None
        displayed_value ==
            IF ~numeric THEN percent
            ELSE IF override # None /\ override.value # <<>> THEN override
            ELSE Unicode(Fixed2(100 * percent.value) \o <<"%">>)
        letter_grade ==
            IF numeric /\ percent.type = "float" /\ percent.value > 0
            THEN get_letter_grade(percent, ordered_grades)
            ELSE None
        scores == IF section.category \in DOMAIN totaled_scores
                  THEN totaled_scores[section.category] ELSE <<>>
        words == Split(detail, " ")
        score_from_label == words[Len(words)]
        after_open == Split(score_from_label, "(")
        before_close == Split(Split(score_from_label, ")")[1], "/")
        total == Contains(detail, "=")
        label == ~total /\ Contains(detail, "-")
        score_earned ==
            IF total THEN SumScores(scores, "earned")
            ELSE IF label THEN Unicode(Split(after_open[2], "/")[1])
            ELSE IF "score_earned" \in DOMAIN section THEN section.score_earned
            ELSE IntValue(0)
        score_possible ==
            IF total THEN SumScores(scores, "possible")
            ELSE IF label THEN Unicode(before_close[2])
            ELSE IF "score_possible" \in DOMAIN section THEN section.score_possible
            ELSE IntValue(0)
        grade_description ==
            IF ToFloat(score_earned) = <<>> \/ ToFloat(score_possible) = <<>>
            THEN <<"(">> \o ToStr(score_earned) \o <<"/">> \o ToStr(score_possible) \o <<")">>
            ELSE <<"(">> \o Fixed2(ToFloat(score_earned)[1]) \o <<"/">>
                 \o Fixed2(ToFloat(score_possible)[1]) \o <<")">>
    IN IF label /\ (Len(after_open) < 2 \/ Len(before_close) < 2)
       THEN Raised("IndexError")
       ELSE [displayed_value |-> displayed_value,
             grade_description |-> Unicode(grade_description),
             letter_grade |-> letter_grade,
             score_earned |-> score_earned,
             score_possible |-> score_possible] @@ section

(* views.py 465-518 *)
CourseGradeBook_update_grade_summaries(grade_summaries, ordered_grades) ==
    LET SectionsOf(i) ==
            LET grade_summary == grade_summaries[i].grade_summary
            IN [j \in 1..Len(grade_summary.section_breakdown) |->
                   CourseGradeBookSection(grade_summary.section_breakdown[j],
                                          grade_summary.totaled_scores, ordered_grades)]
        Updated(i) ==
            [grade_summaries[i] EXCEPT !.grade_summary =
                [current_letter_grade |->
                     get_letter_grade(grade_summaries[i].grade_summary.current_percent,
                                      ordered_grades),
                 total_letter_grade |->
                     get_letter_grade(grade_summaries[i].grade_summary.percent,
                                      ordered_grades),
                 section_breakdown |-> SectionsOf(i)] @@ grade_summaries[i].grade_summary]
    IN IF \E i \in 1..Len(grade_summaries) :
             \E j \in 1..Len(SectionsOf(i)) : IsRaised(SectionsOf(i)[j])
       THEN Raised("IndexError")
       ELSE Returned([i \in 1..Len(grade_summaries) |-> Updated(i)])

(* a page of students is asked for *)
InitSummaries ==
    /\ gradebook = {}
    /\ history = <<>>
    /\ clock = 0
    /\ hook_calls = 0
    /\ call \in {[op |-> "page", students |-> students] : students \in StudentPages}
    /\ pc = [p \in Procs |-> "idle"]
    /\ loc = [p \in Procs |-> NoLocal]
    /\ is_active = Users
    /\ enrollment = {[user |-> u, course_id |-> c, is_active |-> TRUE] :
                        u \in Users, c \in Courses}
    /\ progress = {}

(* utils.get_updated_grade_summaries for the page *)
GetUpdatedGradeSummaries ==
    /\ call.op = "page"
    /\ call' = [op |-> "get_updated_grade_summaries",
                students |-> call.students,
                patcher |-> PatcherArguments(call.students),
                response |-> get_updated_grade_summaries(call.students)]
    /\ UNCHANGED <<gradebook, history, clock, hook_calls, pc, loc, is_active, enrollment,
                   progress>>

(* views.py 520-538, CourseGradeBook.list: the page of the paginator is the *)
(* page asked for; the response is the list handed to the serializer        *)
CourseGradeBookList ==
    /\ call.op = "page"
    /\ call' = [op |-> "CourseGradeBook.list",
                students |-> call.students,
                patcher |-> CourseGradeBookPatcherArguments(call.students),
                response |-> CourseGradeBook_update_grade_summaries(
                                 CourseGradeBook_get_grade_summaries(call.students),
                                 CourseGradeBook_get_ordered_grades)]
    /\ UNCHANGED <<gradebook, history, clock, hook_calls, pc, loc, is_active, enrollment,
                   progress>>

NextSummaries ==
    \/ GetUpdatedGradeSummaries
    \/ CourseGradeBookList

SpecSummaries == InitSummaries /\ [][NextSummaries]_vars

-----------------------------------------------------------------------------
(* Properties of the upsert and of the ledger, one writer at a time (Spec)  *)

(* The entries of one key, oldest first. *)
RECURSIVE KeyHistory(_, _, _)
KeyHistory(h, u, c) ==
    IF h = <<>> THEN <<>>
    ELSE LET rest == KeyHistory(SubSeq(h, 1, Len(h) - 1), u, c)
             e == h[Len(h)]
         IN IF e.user = u /\ e.course_id = c THEN Append(rest, e) ELSE rest

(* The most recently created entry of a key, NoRow when there is none. *)
LatestEntry(h, u, c) ==
    IF HistoryIndices(h, u, c) = {} THEN NoRow
    ELSE CHOOSE e \in {h[i] : i \in HistoryIndices(h, u, c)} :
            \A i \in HistoryIndices(h, u, c) : h[i].created <= e.created

(* The step is a call of generate_user_gradebook that found a stored row    *)
(* of its key holding the incoming grade.                                   *)
UpsertOfStoredGrade ==
    /\ call'.op = "upsert"
    /\ \E r \in GradebookRows(gradebook, call'.user, call'.course_id) :
          r.grade = call'.input.grade

(* C1: an upsert whose incoming grade equals the stored grade leaves the    *)
(* stored row as it is, modified included, whatever the other four         *)
(* incoming fields are, and no history entry is appended.                   *)
C1_UnchangedGradeIsNoOp ==
    [][UpsertOfStoredGrade => (gradebook' = gradebook /\ history' = history)]_vars

(* An upsert with the stored grade and another incoming field that differs  *)
(* from the stored row has returned.                                        *)
C1_Witness ==
    /\ call.op = "upsert"
    /\ ~call.created /\ ~call.saved
    /\ call.returned \in gradebook
    /\ call.input.grade = call.returned.grade
    /\ call.input # Material(call.returned)

(* C2: when the receiver has run for a saved row, an entry was appended     *)
(* exactly when the key had no entry or the most recently created entry of  *)
(* the key differs from the row in one of the five fields.                  *)
C2_AppendIffDiffersFromLatest ==
    [][hook_calls' = hook_calls + 1 =>
         LET latest == LatestEntry(history, call'.user, call'.course_id)
         IN (Len(history') = Len(history) + 1)
              <=> (latest = NoRow \/ Material(latest) # Material(call'.returned))]_vars

(* C3: no two entries of a key that are consecutive in creation order hold  *)
(* the same five fields.                                                    *)
C3_NoConsecutiveDuplicates ==
    \A u \in Users, c \in LedgerCourses :
        LET kh == KeyHistory(history, u, c)
        IN \A i \in 1..(Len(kh) - 1) : Material(kh[i]) # Material(kh[i + 1])

(* C4: whenever a row is stored for a key, the most recently created entry  *)
(* of the key holds the row's five fields.                                  *)
C4_LatestEntryMatchesRecord ==
    \A r \in gradebook :
        LET latest == LatestEntry(history, r.user, r.course_id)
        IN latest # NoRow /\ Material(latest) = Material(r)

(* C6: an upsert of an absent key stores one row holding the five incoming  *)
(* fields; an upsert of a stored key with another grade overwrites the five *)
(* fields and moves modified forward, created staying; either way the      *)
(* receiver has run once when the upsert returns.                           *)
C6_CreateOrOverwrite ==
    [][call'.op = "upsert" =>
         LET before == GradebookRows(gradebook, call'.user, call'.course_id)
             after == GradebookRows(gradebook', call'.user, call'.course_id)
         IN /\ before = {} =>
                 /\ Cardinality(after) = 1
                 /\ \A r \in after : /\ Material(r) = call'.input
                                      /\ r.created > clock /\ r.modified = r.created
                                      /\ call'.returned = r
                 /\ call'.created
                 /\ hook_calls' = hook_calls + 1
            /\ \A b \in before : b.grade # call'.input.grade =>
                 /\ Cardinality(after) = 1
                 /\ \A r \in after : /\ Material(r) = call'.input
                                      /\ r.modified > b.modified /\ r.modified > clock
                                      /\ r.created = b.created /\ r.id = b.id
                                      /\ call'.returned = r
                 /\ call'.saved
                 /\ hook_calls' = hook_calls + 1]_vars

(* An upsert has overwritten a stored row with another grade and a changed  *)
(* field besides grade, after another upsert created a row.                 *)
C6_Witness ==
    /\ call.op = "upsert" /\ call.saved
    /\ call.returned \in gradebook
    /\ call.returned.modified > call.returned.created
    /\ call.input # BaseInput(call.input.grade)
    /\ Cardinality(gradebook) = 2
    /\ hook_calls >= 3

(* C7: the ledger is append-only: in every step every stored entry stays   *)
(* as it is at its place in the table, so the entries of each key before    *)
(* the step are a prefix of the entries of the key after it.                *)
C7_AppendOnly ==
    [][/\ Len(history) <= Len(history')
       /\ \A i \in 1..Len(history) : history'[i] = history[i]]_vars

(* The receiver has run for a key that already had an entry and appended    *)
(* another one.                                                             *)
C7_Witness ==
    \E u \in Users, c \in LedgerCourses : Len(KeyHistory(history, u, c)) >= 2

-----------------------------------------------------------------------------
(* Properties of concurrent upserts (SpecConc)                              *)

(* C5: at most one gradebook row is stored for a (user, course) key,        *)
(* whatever the interleaving of the callers.                                *)
C5_OneRecordPerKey ==
    \A u \in Users, c \in Courses : Cardinality(GradebookRows(gradebook, u, c)) <= 1

(* Two callers both found the key absent; one inserted the row and the      *)
(* other's insert was refused.                                              *)
C5_Witness ==
    \E p \in Procs :
        /\ pc[p] = "get_again"
        /\ Cardinality(GradebookRows(gradebook, loc[p].user, loc[p].course_id)) = 1

(* No caller is between its first read and its last write of key (u, c). *)
Quiescent(u, c) ==
    \A p \in Procs : pc[p] # "idle" => ~(loc[p].user = u /\ loc[p].course_id = c)

(* C8: with concurrent upserts of one key the receiver's fetch, compare and *)
(* append behave as one atomic step: no two consecutive entries of a key    *)
(* hold the same five fields, and once the callers of a key have returned   *)
(* the stored row has an entry holding its five fields.                     *)
C8_LedgerAtomic ==
    \A u \in Users, c \in Courses :
        LET kh == KeyHistory(history, u, c)
        IN /\ \A i \in 1..(Len(kh) - 1) : Material(kh[i]) # Material(kh[i + 1])
           /\ Quiescent(u, c) =>
                 \A r \in GradebookRows(gradebook, u, c) :
                    \E i \in 1..Len(kh) : Material(kh[i]) = Material(r)

(* C9: the upsert is atomic per key: every stored row holds the five fields *)
(* of one call, and a caller that is about to write after its grade         *)
(* comparison still finds in the store the row it compared against.         *)
C9_UpsertAtomicPerKey ==
    /\ \A r \in gradebook : Material(r) \in ConcInputs
    /\ \A p \in Procs :
          pc[p] = "save" =>
             \A r \in GradebookRows(gradebook, loc[p].user, loc[p].course_id) :
                r = loc[p].entry

-----------------------------------------------------------------------------
(* Properties of the leaderboard (SpecBoard)                                *)

(* The records a leaderboard request ranks: of the course, of an active     *)
(* user actively enrolled in it, not excluded, in one of the listed groups  *)
(* when groups are listed.                                                  *)
Eligible(c, group_ids, exclude_users) ==
    {r \in gradebook :
        /\ r.course_id = c
        /\ r.user \in is_active
        /\ [user |-> r.user, course_id |-> c, is_active |-> TRUE] \in enrollment
        /\ r.user \notin exclude_users
        /\ group_ids # {} => UserGroups(r.user) \cap group_ids # {}}

(* C10: the rows of a leaderboard are ordered by grade descending and,      *)
(* among equal grades, by modified ascending; they are the first            *)
(* min(topN, number of eligible records) records of that order, topN being *)
(* 3 when the request gives no count.                                       *)
C10_LeaderboardRows ==
    call.op = "leaderboard" =>
        LET rows == call.data.queryset
            eligible == Eligible(call.course_id, call.group_ids, call.exclude_users)
            topN == IF call.count = <<>> THEN 3 ELSE call.count[1]
            n == Cardinality(eligible)
            Shown(r) == \E i \in 1..Len(rows) : rows[i].user__id = r.user
        IN /\ Len(rows) = IF topN < n THEN topN ELSE n
           /\ \A i, j \in 1..Len(rows) :
                 i < j => \/ rows[i].grade > rows[j].grade
                          \/ /\ rows[i].grade = rows[j].grade
                             /\ rows[i].modified < rows[j].modified
           /\ \A i \in 1..Len(rows) :
                 \E r \in eligible : /\ rows[i].user__id = r.user
                                     /\ rows[i].grade = r.grade
                                     /\ rows[i].modified = r.modified
           /\ \A r \in eligible :
                 ~Shown(r) =>
                    \A i \in 1..Len(rows) :
                       \/ rows[i].grade > r.grade
                       \/ rows[i].grade = r.grade /\ rows[i].modified < r.modified

(* A leaderboard of one row was cut from two eligible records of the same   *)
(* grade; the record left out was created first and reached the grade last. *)
C10_Witness ==
    /\ call.op = "leaderboard"
    /\ call.count = <<1>>
    /\ Len(call.data.queryset) = 1
    /\ \E r, o \in Eligible(call.course_id, call.group_ids, call.exclude_users) :
          /\ call.data.queryset[1].user__id = r.user
          /\ o.user # r.user
          /\ o.grade = r.grade
          /\ o.created < r.created
          /\ o.modified > r.modified

(* The users a leaderboard request counts as enrolled: with an active       *)
(* enrollment in the course and not excluded.                               *)
Enrolled(c, exclude_users) ==
    {u \in Users : [user |-> u, course_id |-> c, is_active |-> TRUE] \in enrollment}
        \ exclude_users

(* The request returned the requesting user's position. *)
PositionReturned ==
    /\ call.op = "leaderboard"
    /\ "user_position" \in DOMAIN call.data

(* C11: for an eligible user with a stored record, in every store reached   *)
(* by upserts, overwritten records included, the returned position minus    *)
(* one is the number of eligible records that precede the user's record in  *)
(* the leaderboard's order: a greater grade, or the same grade and an       *)
(* earlier modified than the modified of the user's record.                 *)
C11_PositionMatchesOrder ==
    call.op = "leaderboard" =>
        LET eligible == Eligible(call.course_id, call.group_ids, call.exclude_users)
        IN \A own \in eligible :
              own.user = call.user_id =>
                 /\ PositionReturned
                 /\ call.data.user_position - 1 =
                       Cardinality({r \in eligible :
                                      \/ r.grade > own.grade
                                      \/ r.grade = own.grade /\ r.modified < own.modified})

(* C12: when eligible records exist, the course average is the mean grade   *)
(* of the eligible records times their number over the number of enrolled, *)
(* not excluded users, that is the sum of the recorded grades over that     *)
(* number, rounded to the nearest thousandth.                               *)
C12_AverageCorrection ==
    (call.op = "leaderboard" /\ call.group_ids = {}) =>
        LET recorded == Eligible(call.course_id, {}, call.exclude_users)
            totalEnrolled == Cardinality(Enrolled(call.course_id, call.exclude_users))
            scaled == call.data.course_avg * totalEnrolled
            sum == SumGrades(recorded)
        IN recorded # {} =>
              /\ call.data.course_count = Cardinality(recorded)
              /\ 2 * (scaled - sum) <= totalEnrolled
              /\ 2 * (sum - scaled) <= totalEnrolled

(* An average over three enrolled users of whom fewer have a record, the    *)
(* quotient being rounded up.                                               *)
C12_Witness ==
    /\ call.op = "leaderboard" /\ call.group_ids = {}
    /\ Cardinality(Enrolled(call.course_id, call.exclude_users)) = 3
    /\ call.data.course_count \in {1, 2}
    /\ call.data.course_avg * 3 >
          SumGrades(Eligible(call.course_id, {}, call.exclude_users))

(* The user is excluded by the request, inactive, or without an active      *)
(* enrollment in the course.                                                *)
Ineligible(u, c, exclude_users) ==
    \/ u \in exclude_users
    \/ u \notin is_active
    \/ [user |-> u, course_id |-> c, is_active |-> TRUE] \notin enrollment

(* C13: no excluded user, inactive user or user without an active           *)
(* enrollment appears in the rows; the average, maximum, minimum and count  *)
(* are what they are with the records of those users removed from the       *)
(* store; and the position of the requesting user is what it is with the    *)
(* records of all other such users removed.                                 *)
C13_IneligibleUsersLeftOut ==
    call.op = "leaderboard" =>
        LET c == call.course_id
            ex == call.exclude_users
            rows == call.data.queryset
            left_out == {r \in gradebook : Ineligible(r.user, c, ex)}
            without == generate_leaderboard(gradebook \ left_out, is_active, enrollment,
                                            clock + 1, c, 0, call.group_ids,
                                            CountOf(call.count), ex)
            others == {r \in left_out : r.user # call.user_id}
        IN /\ \A i \in 1..Len(rows) : ~Ineligible(rows[i].user__id, c, ex)
           /\ call.data.course_avg = without.course_avg
           /\ call.data.course_max = without.course_max
           /\ call.data.course_min = without.course_min
           /\ call.data.course_count = without.course_count
           /\ PositionReturned =>
                 call.data.user_position =
                    get_user_position(gradebook \ others, is_active, enrollment,
                                      clock + 1, c, call.user_id, ex,
                                      call.group_ids).user_position

(* The position of user 2 was returned while the excluded user 1 and the    *)
(* deactivated user 3 each hold a record with a greater grade.              *)
C13_Witness ==
    /\ PositionReturned
    /\ call.user_id = 2 /\ call.exclude_users = {1} /\ 3 \notin is_active
    /\ \E own, a, b \in gradebook :
          /\ own.user = 2 /\ a.user = 1 /\ b.user = 3
          /\ a.grade > own.grade /\ b.grade > own.grade
          /\ call.data.user_position = 1

(* C14: when the request lists groups, the count, the maximum, the minimum  *)
(* and the average before its correction are taken over the eligible        *)
(* records whose user belongs to a listed group, the set the rows are       *)
(* drawn from; the returned average is that set's sum of grades over the    *)
(* number of enrolled users, rounded to the nearest thousandth.             *)
C14_AggregatesOverGroup ==
    (call.op = "leaderboard" /\ call.group_ids # {}) =>
        LET in_group == Eligible(call.course_id, call.group_ids, call.exclude_users)
            totalEnrolled == Cardinality(Enrolled(call.course_id, call.exclude_users))
            scaled == call.data.course_avg * totalEnrolled
            sum == SumGrades(in_group)
        IN /\ call.data.course_count = Cardinality(in_group)
           /\ in_group # {} =>
                 /\ call.data.course_max = MaxGrade(in_group)
                 /\ call.data.course_min = MinGrade(in_group)
                 /\ 2 * (scaled - sum) <= totalEnrolled
                 /\ 2 * (sum - scaled) <= totalEnrolled

(* C15: when the request lists groups, a record is ranked exactly when its  *)
(* user is otherwise eligible and belongs to at least one listed group; a   *)
(* user of several listed groups has at most one row and counts at most     *)
(* once among the users above the requesting user.                          *)
C15_GroupFilterOncePerUser ==
    (call.op = "leaderboard" /\ call.group_ids # {}) =>
        LET rows == call.data.queryset
            base == Eligible(call.course_id, {}, call.exclude_users)
            listed == {r \in base : \E g \in call.group_ids : g \in UserGroups(r.user)}
            shown == {rows[i].user__id : i \in 1..Len(rows)}
        IN /\ \A i, j \in 1..Len(rows) : rows[i].user__id = rows[j].user__id => i = j
           /\ shown \subseteq {r.user : r \in listed}
           /\ Len(rows) < CountOf(call.count) => shown = {r.user : r \in listed}
           /\ PositionReturned =>
                 /\ call.data.user_position - 1 >=
                       Cardinality({r.user : r \in {x \in listed :
                                                      x.grade > call.data.user_grade}})
                 /\ call.data.user_position - 1 <=
                       Cardinality({r.user : r \in {x \in listed :
                                                      x.grade >= call.data.user_grade}}
                                      \ {call.user_id})

(* User 1, a member of both listed groups, has a row and is one of the two  *)
(* users above the requesting user, who belongs to no listed group.         *)
C15_Witness ==
    /\ PositionReturned
    /\ call.group_ids = GroupIds /\ call.user_id = 3
    /\ Len(call.data.queryset) = 2
    /\ \E i \in 1..2 : call.data.queryset[i].user__id = 1
    /\ call.data.user_position = 3

(* C16: for a requesting user with no record in the course the returned     *)
(* grade is 0 and the position is one more than the number of eligible      *)
(* records with a grade above 0, or with grade 0 and modified before the    *)
(* time of the lookup: the user is placed below every eligible record.      *)
C16_UngradedUserIsLast ==
    (PositionReturned /\ GradebookRows(gradebook, call.user_id, call.course_id) = {}) =>
        LET eligible == Eligible(call.course_id, call.group_ids, call.exclude_users)
            lookup_time == clock + 1
        IN /\ call.data.user_grade = 0
           /\ call.data.user_position =
                 1 + Cardinality({r \in eligible :
                                    \/ r.grade > 0
                                    \/ r.grade = 0 /\ r.modified < lookup_time})
           /\ call.data.user_position = 1 + Cardinality(eligible)

(* The position of a user without a record was returned as third, after a   *)
(* record of grade 0 and a record of a greater grade.                       *)
C16_Witness ==
    /\ PositionReturned
    /\ GradebookRows(gradebook, call.user_id, call.course_id) = {}
    /\ call.data.user_position = 3
    /\ \E r, o \in Eligible(call.course_id, call.group_ids, call.exclude_users) :
          r.grade = 0 /\ o.grade > 0

(* C17: whenever a leaderboard is requested with a user id, the result      *)
(* holds the user's position and grade, whatever the store holds.           *)
C17_PositionAlwaysReturned ==
    (call.op = "leaderboard" /\ call.user_id # 0) =>
        /\ "user_position" \in DOMAIN call.data
        /\ "user_grade" \in DOMAIN call.data

(* C18: when no user is enrolled once the excluded users are left out, or   *)
(* no eligible record exists, the average, maximum, minimum and count are   *)
(* all 0 and there are no rows.                                             *)
C18_EmptyPopulationIsZero ==
    call.op = "leaderboard" =>
        ((\/ Enrolled(call.course_id, call.exclude_users) = {}
          \/ Eligible(call.course_id, {}, call.exclude_users) = {}) =>
            /\ call.data.course_avg = 0
            /\ call.data.course_max = 0
            /\ call.data.course_min = 0
            /\ call.data.course_count = 0
            /\ call.data.queryset = <<>>)

(* A leaderboard was requested of a course whose only enrolled user is      *)
(* excluded, while the store holds records of the course.                   *)
C18_Witness ==
    /\ call.op = "leaderboard"
    /\ Enrolled(call.course_id, call.exclude_users) = {}
    /\ \E r, o \in gradebook : r.user = 1 /\ o.user # 1 /\ r.grade > 0
    /\ call.data.course_count = 0

-----------------------------------------------------------------------------
(* Properties of the completion count (SpecCompletion)                      *)

(* C19: the count of users who completed is the number of distinct users    *)
(* who are active, actively enrolled, not excluded and of the organization  *)
(* and groups asked for, and whose record has a proforma grade above 0 and  *)
(* at most the grade plus 0.01; a user of several listed groups or          *)
(* organizations counts once.                                               *)
C19_CountCompleted ==
    call.op = "metrics" =>
        LET c == call.course_id
            completed ==
                {u \in Users :
                    /\ ~Ineligible(u, c, call.exclude_users)
                    /\ call.org_ids # {} => \E o \in call.org_ids : o \in UserOrganizations(u)
                    /\ call.group_ids # {} => \E g \in call.group_ids : g \in UserGroups(u)
                    /\ \E r \in GradebookRows(gradebook, u, c) :
                          /\ r.proforma_grade > 0
                          /\ r.proforma_grade <= r.grade + 10}
        IN call.data.users_completed = Cardinality(completed)

(* With a listed organization and both groups listed, user 1, of both       *)
(* groups, with grade 0.75 and proforma grade 0.755 is the one user         *)
(* counted; user 2 with proforma grade 0 or 0.80 is not.                    *)
C19_Witness ==
    /\ call.op = "metrics"
    /\ call.org_ids = {"o1"} /\ call.group_ids = GroupIds /\ call.exclude_users = {}
    /\ call.data.users_completed = 1
    /\ ~Ineligible(2, call.course_id, {})
    /\ \E r, o \in gradebook :
          /\ r.user = 1 /\ r.grade = 750 /\ r.proforma_grade = 755
          /\ o.user = 2 /\ o.grade = 750 /\ o.proforma_grade \in {0, 800}

-----------------------------------------------------------------------------
(* Properties of the time series (SpecSeries)                               *)

(* The sum of the counts of the first i entries of a series. *)
RECURSIVE CountsThrough(_, _)
CountsThrough(series, i) ==
    IF i = 0 THEN 0 ELSE series[i][2] + CountsThrough(series, i - 1)

(* C20: the not-started series has one entry per bucket, with the bucket    *)
(* starts of the started series, and its count at bucket i is the number    *)
(* of enrollments before the start time of the request plus the enrolled    *)
(* counts of the buckets through i, minus the number of distinct users who  *)
(* started before that start time plus the started counts of the buckets    *)
(* through i.                                                               *)
C20_NotStartedCumulative ==
    (call.op = "time_series" /\ call.response.status = 200) =>
        LET d == call.response.data
            c == call.course_id
            startTime == call.start[1]
            Counted(u) ==
                /\ ~Ineligible(u, c, call.exclude_users)
                /\ call.org_ids # {} => \E o \in call.org_ids : o \in UserOrganizations(u)
                /\ call.group_ids # {} => \E g \in call.group_ids : g \in UserGroups(u)
            enrolledBefore ==
                Cardinality({u \in Users : Counted(u) /\ EnrollmentCreated(u) < startTime})
            startedBefore ==
                Cardinality({u \in Users :
                               /\ Counted(u)
                               /\ \E r \in progress : /\ r.user = u /\ r.course_id = c
                                                      /\ r.created < startTime})
        IN /\ Len(d.users_not_started) = Len(d.users_started)
           /\ Len(d.users_not_started) = Len(d.users_enrolled)
           /\ \A i \in 1..Len(d.users_not_started) :
                 /\ d.users_not_started[i][1] = d.users_started[i][1]
                 /\ d.users_not_started[i][2] =
                       (enrolledBefore + CountsThrough(d.users_enrolled, i))
                       - (startedBefore + CountsThrough(d.users_started, i))

(* A request of two buckets from time 2 on: one user started before time 2, *)
(* one in each bucket, and after the second bucket none of the three        *)
(* enrolled users is left not started.                                      *)
C20_Witness ==
    /\ call.op = "time_series" /\ call.response.status = 200
    /\ call.start = <<2>>
    /\ Len(call.response.data.users_not_started) = 2
    /\ \E r \in progress : r.created < 2
    /\ call.response.data.users_started[1][2] = 1
    /\ call.response.data.users_started[2][2] = 1
    /\ call.response.data.users_not_started[1][2] = 1
    /\ call.response.data.users_not_started[2][2] = 0

(* C21: a time series request of an existing course, with both dates, whose *)
(* end is before its start or whose interval is not one of days, weeks and  *)
(* months is answered with a validation error and no series.                *)
C21_MalformedRequestRejected ==
    (/\ call.op = "time_series"
     /\ call.course_id \in Courses
     /\ call.start # <<>> /\ call.end # <<>>
     /\ \/ call.end[1] < call.start[1]
        \/ call.interval \notin {"days", "weeks", "months"}) =>
        /\ call.response.status = 400
        /\ "data" \notin DOMAIN call.response

(* C26: the active users series has as many buckets as the other series,    *)
(* each bucket starting exactly a day before the bucket of the same place   *)
(* in the other series and counting the distinct users with a module        *)
(* interaction in it, the last bucket ending a day before the end of the    *)
(* request; the other series start at the start of the request.             *)
C26_ActiveUsersDayEarlier ==
    (call.op = "time_series" /\ call.response.status = 200) =>
        LET d == call.response.data
            c == call.course_id
            width == IntervalLength(call.interval)
            Counted(u) ==
                /\ ~Ineligible(u, c, call.exclude_users)
                /\ call.org_ids # {} => \E o \in call.org_ids : o \in UserOrganizations(u)
                /\ call.group_ids # {} => \E g \in call.group_ids : g \in UserGroups(u)
            Until(low) == IF low + width < call.end[1] - DayLength
                          THEN low + width ELSE call.end[1] - DayLength
            others == {d.users_not_started, d.users_started, d.users_completed,
                       d.modules_completed, d.users_enrolled}
        IN /\ \A series \in others :
                /\ Len(series) = Len(d.active_users)
                /\ series # <<>> => series[1][1] = call.start[1]
                /\ \A k \in 1..Len(series) :
                      d.active_users[k][1] = series[k][1] - DayLength
           /\ \A k \in 1..Len(d.active_users) :
                 d.active_users[k][2] =
                    Cardinality({u \in Users :
                                   /\ Counted(u)
                                   /\ \E m \in StudentModules :
                                        /\ m.user = u /\ m.course_id = c
                                        /\ d.active_users[k][1] <= m.modified
                                        /\ m.modified < Until(d.active_users[k][1])})

(* the window from 0 to 5: the buckets of the active users start at -2, 0   *)
(* and 2, and the interaction at time 4 is in none of them                  *)
C26_Witness ==
    /\ call.op = "time_series" /\ call.response.status = 200
    /\ call.start = <<0>>
    /\ call.response.data.active_users = <<<<-2, 0>>, <<0, 1>>, <<2, 1>>>>
    /\ Len(call.response.data.users_enrolled) = 3
    /\ call.response.data.users_enrolled[1][1] = 0

(* the sections of an answered page: each with the section it was made      *)
(* from and the raw scores of its student                                   *)
FinalizedSections ==
    IF call.op \notin {"get_updated_grade_summaries", "CourseGradeBook.list"}
       \/ IsRaised(call.response)
    THEN {}
    ELSE UNION {LET entry == call.response.value[i]
                    student == CHOOSE st \in {call.students[k] : k \in 1..Len(call.students)} :
                                   st.id = entry.user_id
                IN {[raw |-> student.student_grades.section_breakdown[j],
                     section |-> entry.grade_summary.section_breakdown[j],
                     totaled_scores |-> student.student_grades.totaled_scores] :
                       j \in 1..Len(entry.grade_summary.section_breakdown)} :
                  i \in 1..Len(call.response.value)}

(* the last word of a label is '(', a text, '/', a text and ')', the texts  *)
(* without any of the three marks                                           *)
WellFormedToken(detail) ==
    LET words == Split(detail, " ")
        token == words[Len(words)]
        marks == {k \in 1..Len(token) : token[k] \in {"(", "/", ")"}}
    IN /\ Len(token) >= 3
       /\ token[1] = "(" /\ token[Len(token)] = ")"
       /\ \E k \in 2..(Len(token) - 1) : token[k] = "/" /\ marks = {1, k, Len(token)}

LastWord(detail) == Split(detail, " ")[Len(Split(detail, " "))]

(* C22: the scores of a finalized section are the sums over the raw scores  *)
(* of its category when the label has '=', else the two texts of the        *)
(* closing (earned/possible) word when the label has '-', else the scores   *)
(* the section came with, 0 by default; grade_description is the two scores *)
(* with two decimals when both are numbers and the two scores as they are   *)
(* otherwise, as in '(3.00/10.00)' and '(?/?)'.                             *)
C22_ScoresByDetail ==
    \A f \in FinalizedSections :
        LET detail == f.raw.detail
            earned == f.section.score_earned
            possible == f.section.score_possible
            scores == IF f.raw.category \in DOMAIN f.totaled_scores
                      THEN f.totaled_scores[f.raw.category] ELSE <<>>
        IN /\ Contains(detail, "=") =>
                /\ ToFloat(earned)[1] = SumScores(scores, "earned").value
                /\ ToFloat(possible)[1] = SumScores(scores, "possible").value
                /\ scores = <<>> => earned = IntValue(0) /\ possible = IntValue(0)
           /\ (~Contains(detail, "=") /\ Contains(detail, "-") /\ WellFormedToken(detail)) =>
                /\ earned.type = "unicode" /\ possible.type = "unicode"
                /\ LastWord(detail)
                     = <<"(">> \o earned.value \o <<"/">> \o possible.value \o <<")">>
           /\ (~Contains(detail, "=") /\ ~Contains(detail, "-")) =>
                /\ earned = IF "score_earned" \in DOMAIN f.raw
                            THEN f.raw.score_earned ELSE IntValue(0)
                /\ possible = IF "score_possible" \in DOMAIN f.raw
                              THEN f.raw.score_possible ELSE IntValue(0)
           /\ f.section.grade_description.value =
                IF ToFloat(earned) # <<>> /\ ToFloat(possible) # <<>>
                THEN <<"(">> \o Fixed2(ToFloat(earned)[1]) \o <<"/">>
                     \o Fixed2(ToFloat(possible)[1]) \o <<")">>
                ELSE <<"(">> \o ToStr(earned) \o <<"/">> \o ToStr(possible) \o <<")">>
           /\ (detail = ExamTotal
               /\ scores = <<[earned |-> 3000, possible |-> 10000]>>) =>
                f.section.grade_description.value
                    = <<"(", "3", ".", "0", "0", "/", "1", "0", ".", "0", "0", ")">>
           /\ detail = UnreleasedHomework =>
                f.section.grade_description.value = <<"(", "?", "/", "?", ")">>

(* a label with both marks and a closing word of scores took the sums *)
C22_Witness ==
    \E f \in FinalizedSections :
        /\ Contains(f.raw.detail, "=") /\ Contains(f.raw.detail, "-")
        /\ WellFormedToken(f.raw.detail)
        /\ f.section.score_earned = Float(4500)
        /\ f.section.grade_description.value
             = <<"(", "4", ".", "5", "0", "/", "1", "2", ".", "0", "0", ")">>

(* C23: whatever the labels of its sections are, a page is answered with    *)
(* finalized summaries, every section with a grade_description, and never   *)
(* with an exception.                                                       *)
C23_NeverRaises ==
    call.op = "get_updated_grade_summaries" =>
        /\ ~IsRaised(call.response)
        /\ \A i \in 1..Len(call.response.value) :
             \A j \in 1..Len(call.response.value[i].grade_summary.section_breakdown) :
                "grade_description"
                    \in DOMAIN call.response.value[i].grade_summary.section_breakdown[j]

(* a section's displayed_value is there and is neither empty nor None *)
HasOverride(section) ==
    /\ "displayed_value" \in DOMAIN section
    /\ section.displayed_value.type = "unicode"
    /\ section.displayed_value.value # <<>>

(* C24: a finalized section whose percent is a text shows that text and has *)
(* no letter grade; one whose percent is a number has the letter grade of   *)
(* the lookup when the percent is above 0 and none otherwise, and shows the *)
(* override it came with, or else 100 times the percent with two decimals   *)
(* and a percent sign.                                                      *)
C24_LetterGradeAndDisplayedValue ==
    \A f \in FinalizedSections :
        LET percent == f.raw.percent
        IN /\ percent.type = "unicode" =>
                /\ f.section.displayed_value = percent
                /\ f.section.letter_grade = None
           /\ percent.type # "unicode" =>
                /\ f.section.letter_grade =
                     IF percent.value > 0
                     THEN get_letter_grade(percent, get_ordered_grades)
                     ELSE None
                /\ HasOverride(f.raw) => f.section.displayed_value = f.raw.displayed_value
                /\ ~HasOverride(f.raw) =>
                     f.section.displayed_value
                         = Unicode(Fixed2(100 * percent.value) \o <<"%">>)
           /\ percent = Float(855) => f.section.letter_grade = Unicode(<<"A">>)
           /\ (percent = Float(855) /\ "displayed_value" \notin DOMAIN f.raw) =>
                f.section.displayed_value.value = <<"8", "5", ".", "5", "0", "%">>

(* a percent of 0.5 with an override: the grade is looked up, the override  *)
(* is shown                                                                 *)
C24_Witness ==
    \E f \in FinalizedSections :
        /\ f.raw.percent = Float(500)
        /\ HasOverride(f.raw)
        /\ f.section.letter_grade = Unicode(<<"Pass">>)
        /\ f.section.displayed_value = Unicode(<<"B", "+">>)

(* the entries of a page in the order of its students *)
EntriesInOrder ==
    [i \in 1..Len(call.students) |->
        [user_id |-> call.students[i].id, grade_summary |-> call.students[i].student_grades]]

ManualCount(entry) == entry.grade_summary.manual_graded_total_count

(* a sequence without its k-th element *)
Without(seq, k) == SubSeq(seq, 1, k - 1) \o SubSeq(seq, k + 1, Len(seq))

(* C25: when some student of the page has a positive                        *)
(* manual_graded_total_count, the list the patcher is called with begins    *)
(* with the first entry that has the largest count and goes on with the     *)
(* other entries, unchanged and in the order of the students; when every    *)
(* count is 0 the list is in the order of the students.                     *)
C25_GreatestFirst ==
    call.op \in {"get_updated_grade_summaries", "CourseGradeBook.list"} =>
        LET entries == EntriesInOrder
            handed == call.patcher.student_info
            greatest == {i \in 1..Len(entries) :
                            /\ ManualCount(entries[i]) > 0
                            /\ \A j \in 1..Len(entries) :
                                 ManualCount(entries[j]) <= ManualCount(entries[i])}
        IN IF greatest = {} THEN handed = entries
           ELSE LET first == CHOOSE i \in greatest : \A j \in greatest : i <= j
                IN handed = <<entries[first]>> \o Without(entries, first)

(* three students, the second and the third with the largest count: the     *)
(* second is handed over first, then the first, then the third              *)
C25_Witness ==
    /\ call.op = "get_updated_grade_summaries"
    /\ Len(call.students) = 3
    /\ ManualCount(EntriesInOrder[1]) = 1
    /\ ManualCount(EntriesInOrder[2]) = 2
    /\ ManualCount(EntriesInOrder[3]) = 2
    /\ call.patcher.student_info
         = <<EntriesInOrder[2], EntriesInOrder[1], EntriesInOrder[3]>>

(* C30: for every page of students the functions of utils.py and the       *)
(* methods of the CourseGradeBook view hand the same list to the patcher    *)
(* and leave the same finalized summaries in the same order, or both raise  *)
(* the same exception on a label they cannot take apart.                    *)
C30_ViewAndUtilsAgree ==
    /\ call.op = "get_updated_grade_summaries" =>
          /\ call.patcher = CourseGradeBookPatcherArguments(call.students)
          /\ call.response =
                CourseGradeBook_update_grade_summaries(
                    CourseGradeBook_get_grade_summaries(call.students),
                    CourseGradeBook_get_ordered_grades)
    /\ call.op = "CourseGradeBook.list" =>
          /\ call.patcher = PatcherArguments(call.students)
          /\ call.response = get_updated_grade_summaries(call.students)

(* the view has raised on the label 'Homework - 0%' *)
C30_Witness ==
    /\ call.op = "CourseGradeBook.list"
    /\ IsRaised(call.response)
    /\ Len(call.students) = 1
    /\ call.students[1].student_grades.section_breakdown[1].detail = HomeworkNoScore

-----------------------------------------------------------------------------
(* Properties of upserts of different keys (SpecConc)                       *)

ConcKeys == LedgerUsers \X Courses

(* C27: a step of a caller that upserts one key leaves the gradebook row    *)
(* and the history entries of every other key as they are, whatever the     *)
(* other callers are in the middle of; the entry the receiver compares with *)
(* is an entry of the caller's own key, and the first save of a key appends *)
(* that key's first entry whatever the other keys have stored.              *)
C27_OtherKeysUntouched ==
    [][\A p \in Procs :
          pc'[p] # pc[p] =>
             IF pc[p] = "idle"
             THEN gradebook' = gradebook /\ history' = history
             ELSE LET own == <<loc[p].user, loc[p].course_id>>
                  IN /\ \A k \in ConcKeys \ {own} :
                          /\ GradebookRows(gradebook', k[1], k[2])
                               = GradebookRows(gradebook, k[1], k[2])
                          /\ KeyHistory(history', k[1], k[2]) = KeyHistory(history, k[1], k[2])
                     /\ pc'[p] = "history_save" =>
                          \/ loc'[p].latest = NoRow
                          \/ <<loc'[p].latest.user, loc'[p].latest.course_id>> = own
                     /\ (pc[p] = "create" /\ gradebook' # gradebook) =>
                          /\ Cardinality(GradebookRows(gradebook', own[1], own[2])) = 1
                          /\ Len(KeyHistory(history', own[1], own[2])) = 1
                          /\ Material(KeyHistory(history', own[1], own[2])[1])
                               = loc[p].input]_vars

(* one caller is between its save and its history entry for user 1 while    *)
(* the other has fetched the newest entry of user 2, both keys with a row   *)
(* and an entry of the same content                                         *)
C27_Witness ==
    /\ pc["p1"] = "history_fetch" /\ loc["p1"].user = 1
    /\ pc["p2"] = "history_save" /\ loc["p2"].user = 2
    /\ loc["p2"].latest # NoRow
    /\ \E i, j \in 1..Len(history) :
          /\ history[i].user = 1 /\ history[j].user = 2
          /\ Material(history[i]) = Material(history[j])

-----------------------------------------------------------------------------
(* Properties of the timestamps of a row (Spec)                             *)

(* C28: in every step of a sequence of upserts every stored row stays       *)
(* stored with the created it had and a modified that is not earlier, and   *)
(* with the same modified unless its grade changes in the step; created is  *)
(* never later than modified.                                               *)
C28_Timestamps ==
    [][/\ \A r \in gradebook :
            \E n \in gradebook' :
               /\ n.id = r.id /\ n.user = r.user /\ n.course_id = r.course_id
               /\ n.created = r.created
               /\ n.modified >= r.modified
               /\ n.modified # r.modified => n.grade # r.grade
       /\ \A n \in gradebook' : n.created <= n.modified]_vars

(* an upsert with the stored grade and another proforma grade has left a    *)
(* row that was overwritten earlier as it was                               *)
C28_Witness ==
    /\ call.op = "upsert" /\ ~call.created /\ ~call.saved
    /\ Material(call.returned) # call.input
    /\ call.returned.modified > call.returned.created
    /\ call.returned \in gradebook

-----------------------------------------------------------------------------
(* Properties of the aggregates of the leaderboard (SpecBoard)              *)

(* C29: the count of a leaderboard is at most the number of enrolled, not   *)
(* excluded users; the minimum is at most the mean of the recorded grades   *)
(* and the mean at most the maximum; the average returned is at most the    *)
(* maximum; and without a group filter the grade of every row is between    *)
(* the minimum and the maximum.                                             *)
C29_AggregateBounds ==
    call.op = "leaderboard" =>
        LET d == call.data
            totalEnrolled == Cardinality(Enrolled(call.course_id, call.exclude_users))
            recorded == Eligible(call.course_id, {}, call.exclude_users)
        IN /\ d.course_count <= totalEnrolled
           /\ d.course_count # 0 =>
                /\ d.course_count = Cardinality(recorded)
                /\ d.course_min * d.course_count <= SumGrades(recorded)
                /\ SumGrades(recorded) <= d.course_max * d.course_count
           /\ d.course_min <= d.course_max
           /\ d.course_avg <= d.course_max
           /\ call.group_ids = {} =>
                \A i \in 1..Len(d.queryset) :
                   /\ d.course_min <= d.queryset[i].grade
                   /\ d.queryset[i].grade <= d.course_max

(* two of three enrolled users have a record, one of grade 0 and one of     *)
(* grade 0.8: the average returned is 0.267, below the mean 0.4             *)
C29_Witness ==
    /\ call.op = "leaderboard" /\ call.group_ids = {}
    /\ Cardinality(Enrolled(call.course_id, call.exclude_users)) = 3
    /\ call.data.course_count = 2
    /\ call.data.course_min = 0 /\ call.data.course_max = 800
    /\ call.data.course_avg = 267
    /\ Len(call.data.queryset) = 2

====
